---- MODULE Spec2Model ----
(***************************************************************************)
(* A model of tapper (vash/tapper): the parallel terraform runner.         *)
(*                                                                         *)
(*   Spec      one invocation of executeCommand (cmd/tapper/root.go):      *)
(*             profile resolution, Executor.Init on the first profile,     *)
(*             workspace allocation, the dry-run pass, the review, the     *)
(*             real pass and the deferred cleanup.                         *)
(*   SpecPass  Executor.ExecutePlan called on an executor whose            *)
(*             MaxConcurrency is smaller than the number of profiles.      *)
(*   SpecWs    WorkspaceManager.CreateWorkspaces / Cleanup on a parent     *)
(*             directory that other operations use as well.                *)
(*                                                                         *)
(* Strings are TLA+ strings; file names, argument vectors and captured     *)
(* error text are built and matched character by character as the Go code  *)
(* does (HasPrefix, HasSuffix, Contains, Sprintf).                         *)
(***************************************************************************)
EXTENDS Integers, Sequences, FiniteSets, TLC

\* -------------------------------------------------------------------------
\* Bounds of the model
\* -------------------------------------------------------------------------
\* the longest list of profile names given on the command line
MaxProfiles == 2
\* the number of profiles of the plan in SpecPass
NumTasks == 3
\* the MaxConcurrency the caller sets in SpecPass, below NumTasks
MaxCap == 2
\* the number of characters of an operation identifier (8 in the program)
IdLen == 2
\* the number of workspaces of other operations already in the parent directory
MaxOthers == 1

\* -------------------------------------------------------------------------
\* strings (package strings, path/filepath)
\* -------------------------------------------------------------------------
HasPrefix(s, prefix) ==
    Len(s) >= Len(prefix) /\ SubSeq(s, 1, Len(prefix)) = prefix

HasSuffix(s, suffix) ==
    Len(s) >= Len(suffix) /\ SubSeq(s, Len(s) - Len(suffix) + 1, Len(s)) = suffix

Contains(s, substr) ==
    \E i \in 1..(Len(s) - Len(substr) + 1) : SubSeq(s, i, i + Len(substr) - 1) = substr

\* the position of the last separator of a path, 0 when it has none
LastSlash(path) ==
    CHOOSE i \in 0..Len(path) :
        /\ i = 0 \/ SubSeq(path, i, i) = "/"
        /\ \A j \in (i + 1)..Len(path) : SubSeq(path, j, j) # "/"

\* filepath.Dir and filepath.Base of a clean absolute path
FilepathDir(path) ==
    IF LastSlash(path) <= 1 THEN "/" ELSE SubSeq(path, 1, LastSlash(path) - 1)

FilepathBase(path) == SubSeq(path, LastSlash(path) + 1, Len(path))

FilepathJoin(dir, name) == IF dir = "" THEN name ELSE dir \o "/" \o name

\* the elements of a sequence
Range(seq) == {seq[i] : i \in 1..Len(seq)}

\* all sequences over S of length lo..hi
SeqsOf(S, lo, hi) == UNION {[1..n -> S] : n \in lo..hi}

\* -------------------------------------------------------------------------
\* The file system next to the source tree
\* -------------------------------------------------------------------------
\* the directory that holds the source tree and the workspaces
ParentDir == "/work"

\* A directory entry: kind is "file", "dir" or "link"; a link carries its
\* relative target; a directory carries its own entries (one level is enough
\* for .terraform).
File(name) == [name |-> name, kind |-> "file", target |-> "", sub |-> {}]
Dir(name, sub) == [name |-> name, kind |-> "dir", target |-> "", sub |-> sub]
Link(name, target) == [name |-> name, kind |-> "link", target |-> target, sub |-> {}]

\* the entries a source tree can hold
TreeInitialised ==
    { Dir(".terraform", {Dir("providers", {}), File("terraform.tfstate")}),
      Dir("backend", {}), File("main.tf"), Dir("vars", {}) }
TreeFresh == { Dir("backend", {}), File("main.tf"), Dir("vars", {}) }
TreeInactive == { Dir("backend", {}), File("notes.md"), Dir("vars", {}) }

\* every entry name of the model, in byte order: os.ReadDir returns the
\* entries of a directory sorted by file name
SortedNames ==
    << ".terraform", "backend", "main.tf", "notes.md", "providers",
       "terraform.tfstate", "vars" >>

HasEntry(entries, name) == \E e \in entries : e.name = name
EntryOf(entries, name) == CHOOSE e \in entries : e.name = name

\* os.ReadDir: the entries of a directory as a list sorted by name
ReadDir(entries) ==
    LET names == SelectSeq(SortedNames, LAMBDA n : HasEntry(entries, n))
    IN  [i \in 1..Len(names) |-> EntryOf(entries, names[i])]

\* the number of path separators of a relative path
RECURSIVE CountSlash(_)
CountSlash(s) ==
    IF s = "" THEN 0
    ELSE (IF SubSeq(s, 1, 1) = "/" THEN 1 ELSE 0) + CountSlash(SubSeq(s, 2, Len(s)))

RECURSIVE Ups(_)
Ups(n) == IF n = 0 THEN "" ELSE "../" \o Ups(n - 1)

\* filepath.Rel(targetDir, sourcePath) for two paths below ParentDir whose
\* first components differ (a workspace and the source tree): one ".." for
\* every component of targetDir, then the source path below ParentDir
FilepathRel(targetDir, sourcePath) ==
    LET skip == Len(ParentDir) + 2
        t == SubSeq(targetDir, skip, Len(targetDir))
        s == SubSeq(sourcePath, skip, Len(sourcePath))
    IN  Ups(CountSlash(t) + 1) \o s

\* -------------------------------------------------------------------------
\* WorkspaceManager (pkg/workspace)
\* -------------------------------------------------------------------------
\* the characters of an operation identifier ("%x" of random bytes); the
\* model draws from two of the sixteen
HexDigits == {"a", "b"}

RECURSIVE IdsOfLen(_)
IdsOfLen(n) ==
    IF n = 0 THEN {""} ELSE {d \o r : d \in HexDigits, r \in IdsOfLen(n - 1)}

\* NewWorkspaceManager: the identifiers rand.Read and Sprintf("%x") can give
OperationIDs == IdsOfLen(IdLen)

\* the identifier of the operation the model follows (the identifiers are
\* interchangeable: equal length, compared as a whole) and the identifier of
\* an earlier operation
OwnID == CHOOSE id \in OperationIDs : TRUE
StaleID == CHOOSE id \in OperationIDs : id # OwnID

\* the names profiles can have (file stems of backend/ and vars/)
ProfileNames == {"dev", "prod"}
\* the base names of the source trees in the parent directory
BaseNames == {"tf", "tf-x"}

\* fmt.Sprintf(".%s-%s-%s", baseDir, profile.Name, wm.OperationID)
WorkspaceName(baseDir, profileName, operationID) ==
    "." \o baseDir \o "-" \o profileName \o "-" \o operationID

\* a skipFunc that skips nothing
skipNothing(name) == FALSE

\* skipFunc of symlink: the state file is never linked
skipFunc(name) == Contains(name, "terraform.tfstate")

\* conditionalSymlink from the i-th entry of the source directory on: links
\* every entry that skipFunc does not skip; os.Symlink fails on a name that
\* exists already, and the links made before the failure stay
RECURSIVE conditionalSymlinkFrom(_, _, _, _, _)
conditionalSymlinkFrom(target, src, i, sourceDir, targetDir) ==
    IF i > Len(src) THEN [entries |-> target, err |-> FALSE]
    ELSE IF skipFunc(src[i].name)
    THEN conditionalSymlinkFrom(target, src, i + 1, sourceDir, targetDir)
    ELSE IF HasEntry(target, src[i].name) THEN [entries |-> target, err |-> TRUE]
    ELSE conditionalSymlinkFrom(
             target \cup {Link(src[i].name,
                               FilepathRel(targetDir, FilepathJoin(sourceDir, src[i].name)))},
             src, i + 1, sourceDir, targetDir)

conditionalSymlink(target, source, sourceDir, targetDir) ==
    conditionalSymlinkFrom(target, ReadDir(source), 1, sourceDir, targetDir)

\* symlink from the i-th entry of the base directory on. target is the set
\* of entries the workspace holds so far.
RECURSIVE symlinkFrom(_, _, _, _, _)
symlinkFrom(target, src, i, baseDirPath, targetDir) ==
    IF i > Len(src) THEN [entries |-> target, err |-> FALSE]
    ELSE
      LET name == src[i].name
          sourcePath == FilepathJoin(baseDirPath, name)
          targetPath == FilepathJoin(targetDir, name)
      IN
      IF name = ".terraform" THEN
        \* os.MkdirAll(targetPath) then conditionalSymlink
        LET old == IF HasEntry(target, name) THEN EntryOf(target, name)
                   ELSE Dir(name, {})
            r == conditionalSymlink(old.sub, src[i].sub, sourcePath, targetPath)
            made == (target \ {old}) \cup {Dir(name, r.entries)}
        IN  IF old.kind # "dir" \/ src[i].kind # "dir"
            THEN [entries |-> target, err |-> TRUE]
            ELSE IF r.err THEN [entries |-> made, err |-> TRUE]
            ELSE symlinkFrom(made, src, i + 1, baseDirPath, targetDir)
      ELSE IF HasEntry(target, name) THEN [entries |-> target, err |-> TRUE]
      ELSE symlinkFrom(target \cup {Link(name, FilepathRel(targetDir, sourcePath))},
                       src, i + 1, baseDirPath, targetDir)

\* symlink(targetDir): links the entries of the base directory into the
\* workspace whose entries are target
symlink(dirs, target, baseDirPath, targetDir) ==
    symlinkFrom(target, ReadDir(dirs[FilepathBase(baseDirPath)].entries), 1,
                baseDirPath, targetDir)

\* CreateWorkspaces from the i-th profile on. dirs are the directories of the
\* parent, spaces is ProfileSpaces; failAt is the profile at which
\* os.MkdirAll fails (0: at none). What was made before an error stays.
RECURSIVE CreateWorkspacesFrom(_, _, _, _, _, _, _)
CreateWorkspacesFrom(i, profileNames, dirs, spaces, failAt, baseDirPath, operationID) ==
    IF i > Len(profileNames)
    THEN [siblings |-> dirs, spaces |-> spaces, err |-> "none"]
    ELSE
      LET workspaceParent == FilepathDir(baseDirPath)
          baseDir == FilepathBase(baseDirPath)
          profileWorkspaceName == WorkspaceName(baseDir, profileNames[i], operationID)
          profileWorkspace == FilepathJoin(workspaceParent, profileWorkspaceName)
          exists == profileWorkspaceName \in DOMAIN dirs
          old == IF exists THEN dirs[profileWorkspaceName].entries ELSE {}
          r == symlink(dirs, old, baseDirPath, profileWorkspace)
          dirs2 == (profileWorkspaceName :> [kind |-> "dir", entries |-> r.entries]) @@ dirs
          spaces2 == (profileNames[i] :> profileWorkspace) @@ spaces
      IN
      IF failAt = i \/ (exists /\ dirs[profileWorkspaceName].kind # "dir")
      THEN [siblings |-> dirs, spaces |-> spaces, err |-> "mkdir"]
      ELSE IF r.err
      THEN [siblings |-> dirs2, spaces |-> spaces2, err |-> "symlink"]
      ELSE CreateWorkspacesFrom(i + 1, profileNames, dirs2, spaces2, failAt,
                                baseDirPath, operationID)

\* Cleanup that matches on the prefix only: the workspaces of every
\* operation in this source tree
CleanupMatchesAnyOperation(dirs, baseDirPath, operationID) ==
    LET prefix == "." \o FilepathBase(baseDirPath) \o "-"
    IN  {n \in DOMAIN dirs : dirs[n].kind = "dir" /\ HasPrefix(n, prefix)}

\* the directories of the parent that Cleanup removes: entry.IsDir() and the
\* name has the prefix ".<base>-" and the suffix "-<operation id>"
CleanupMatches(dirs, baseDirPath, operationID) ==
    LET suffix == "-" \o operationID
        prefix == "." \o FilepathBase(baseDirPath) \o "-"
    IN  {n \in DOMAIN dirs :
            dirs[n].kind = "dir" /\ HasPrefix(n, prefix) /\ HasSuffix(n, suffix)}

\* the parent directory without the directories of a set
RemoveAll(dirs, names) == [n \in (DOMAIN dirs) \ names |-> dirs[n]]

\* the entry of a workspace name in ProfileSpaces, as GetWorkspacePath
\* returns it: the path and whether the name is in the map
GetWorkspacePath(spaces, profileName) ==
    IF profileName \in DOMAIN spaces
    THEN [path |-> spaces[profileName], exists |-> TRUE]
    ELSE [path |-> "", exists |-> FALSE]

\* an empty map[string]string
EmptyMap == [n \in {} |-> ""]

\* -------------------------------------------------------------------------
\* Profiles and the command builder (pkg/terraform)
\* -------------------------------------------------------------------------
\* a Profile as DetectProfiles builds it from the stem of its two files
Profile(name) ==
    [Name |-> name, BackendConfig |-> name \o ".tfbackend",
     VarFile |-> name \o ".tfvars", BackendDir |-> "backend", VarsDir |-> "vars"]

\* the Config of LoadConfig: one profile per detected stem
Config == [Profiles |-> << Profile("dev"), Profile("prod") >>]

\* GetProfile that looks at the first profile only
GetProfileFirstOnly(config, name) ==
    IF config.Profiles # << >> /\ config.Profiles[1].Name = name
    THEN [found |-> TRUE, profile |-> config.Profiles[1]]
    ELSE [found |-> FALSE, profile |-> Profile("")]

\* GetProfile(config, name)
GetProfile(config, name) ==
    LET hits == {i \in 1..Len(config.Profiles) : config.Profiles[i].Name = name}
    IN  IF hits = {} THEN [found |-> FALSE, profile |-> Profile("")]
        ELSE [found |-> TRUE,
              profile |-> config.Profiles[CHOOSE i \in hits : \A j \in hits : i <= j]]

\* NewCommandBuilder and its With... setters
NewCommandBuilder ==
    [WorkingDir |-> "", BackendConfig |-> "", VarFile |-> "",
     BackendDir |-> "backend", VarsDir |-> "vars", Targets |-> << >>]

\* exec.Command("terraform", args...) with cmd.Dir
Cmd(args, dir) == [Path |-> "terraform", Args |-> args, Dir |-> dir]

\* BuildInitCommand
BuildInitCommand(cb) ==
    Cmd(<< "init" >>
        \o (IF cb.BackendConfig # ""
            THEN << "--backend-config=" \o FilepathJoin(cb.BackendDir, cb.BackendConfig) >>
            ELSE << >>)
        \o << "--reconfigure" >>,
        cb.WorkingDir)

\* GetBackendConfigPath
GetBackendConfigPath(cb) ==
    IF cb.BackendConfig = "" THEN ""
    ELSE IF cb.WorkingDir # ""
    THEN FilepathJoin(FilepathJoin(cb.WorkingDir, cb.BackendDir), cb.BackendConfig)
    ELSE FilepathJoin(cb.BackendDir, cb.BackendConfig)

\* GetVarFilePath
GetVarFilePath(cb) ==
    IF cb.VarFile = "" THEN ""
    ELSE IF cb.WorkingDir # ""
    THEN FilepathJoin(FilepathJoin(cb.WorkingDir, cb.VarsDir), cb.VarFile)
    ELSE FilepathJoin(cb.VarsDir, cb.VarFile)

\* flags that approve apply and destroy in a dry run too
CommandFlagsIgnoresDryRun(opts) ==
    IF opts.Command = "plan" THEN << "--detailed-exitcode" >>
    ELSE IF opts.Command \in {"apply", "destroy"}
    THEN << "--auto-approve" >>
    ELSE << >>

\* the flags buildTerraformCommand adds for the command
CommandFlags(opts) ==
    IF opts.Command = "plan" THEN << "--detailed-exitcode" >>
    ELSE IF opts.Command \in {"apply", "destroy"} /\ ~opts.DryRun
    THEN << "--auto-approve" >>
    ELSE << >>

\* buildTerraformCommand
buildTerraformCommand(cb, opts) ==
    Cmd(<< opts.Command >>
        \o (IF cb.VarFile # ""
            THEN << "--var-file=" \o FilepathJoin(cb.VarsDir, cb.VarFile) >>
            ELSE << >>)
        \o [i \in 1..Len(cb.Targets) |-> "--target=" \o cb.Targets[i]]
        \o CommandFlags(opts)
        \o opts.Args,
        cb.WorkingDir)

\* BuildCommandFromProfile without its switch on the command
BuildCommandFromProfileAnyCommand(profile, workspacePath, opts, varFileExists) ==
    LET cb == [NewCommandBuilder EXCEPT !.WorkingDir = workspacePath,
                                        !.VarFile = profile.VarFile,
                                        !.VarsDir = profile.VarsDir]
    IN  IF GetVarFilePath(cb) # "" /\ ~varFileExists
        THEN [cmd |-> Cmd(<< >>, ""), err |-> "var file not found: " \o GetVarFilePath(cb)]
        ELSE [cmd |-> buildTerraformCommand(cb, opts), err |-> ""]

\* BuildCommandFromProfile: the command, or the error of an unsupported
\* command or of a var file that does not exist (varFileExists is what
\* CheckFileOrDirExists finds at GetVarFilePath)
BuildCommandFromProfile(profile, workspacePath, opts, varFileExists) ==
    LET cb == [NewCommandBuilder EXCEPT !.WorkingDir = workspacePath,
                                        !.VarFile = profile.VarFile,
                                        !.VarsDir = profile.VarsDir]
    IN  IF opts.Command \notin {"plan", "apply", "destroy"}
        THEN [cmd |-> Cmd(<< >>, ""), err |-> "unsupported command: " \o opts.Command]
        ELSE IF GetVarFilePath(cb) # "" /\ ~varFileExists
        THEN [cmd |-> Cmd(<< >>, ""), err |-> "var file not found: " \o GetVarFilePath(cb)]
        ELSE [cmd |-> buildTerraformCommand(cb, opts), err |-> ""]

\* ExecutionOptions of a dry-run pass that keeps the command of the user
PreviewOptionsKeepsCommand(cmd, additionalArgs) ==
    [Command |-> cmd,
     Args |-> << "--detailed-exitcode" >>
              \o (IF cmd = "destroy" THEN << "--destroy" >> ELSE << >>)
              \o additionalArgs,
     DryRun |-> TRUE]

\* the ExecutionOptions of the dry-run pass (PlanExecution)
PreviewOptions(cmd, additionalArgs) ==
    [Command |-> "plan",
     Args |-> << "--detailed-exitcode" >>
              \o (IF cmd = "destroy" THEN << "--destroy" >> ELSE << >>)
              \o additionalArgs,
     DryRun |-> TRUE]

\* the ExecutionOptions of the real pass (ExecutePlan)
ExecuteOptions(cmd, additionalArgs) ==
    [Command |-> cmd, Args |-> additionalArgs, DryRun |-> FALSE]

\* filterApprovedProfiles without its test of the name: every profile of the
\* plan is kept
filterKeepsAll(profs, approvedNames) == profs

\* filterApprovedProfiles: the profiles whose name is among the approved
\* names, in the order of the profile list
filterApprovedProfiles(profs, approvedNames) ==
    SelectSeq(profs, LAMBDA p : p.Name \in Range(approvedNames))

\* -------------------------------------------------------------------------
\* External processes and the credential refresher (pkg/utils/aws.go)
\* -------------------------------------------------------------------------
SSOTokenExpiredError ==
    "SSOProviderInvalidToken: the SSO session has expired or is invalid"

\* IsAWSSSOTokenExpired
IsAWSSSOTokenExpired(output) == Contains(output, SSOTokenExpiredError)

\* what a failing terraform process can have written to stderr
StderrTexts ==
    { "Error: " \o SSOTokenExpiredError,
      "Error: invalid token",
      "Error: Invalid reference" }

\* how a terraform process can end: exit 0, exit 2 of plan --detailed-exitcode
\* with changes, or exit 1 with an error text
Exited(code, stdout, stderr) == [code |-> code, stdout |-> stdout, stderr |-> stderr]
ProcessOutcomes(argv) ==
    {Exited(0, "No changes.", "")}
    \cup (IF argv[1] = "plan" THEN {Exited(2, "Plan: 1 to add.", "")} ELSE {})
    \cup {Exited(1, "", t) : t \in StderrTexts}

\* the message of the *exec.ExitError of a process
ExitError(outcome) ==
    IF outcome.code = 0 THEN ""
    ELSE IF outcome.code = 1 THEN "exit status 1" ELSE "exit status 2"

\* the message of the error of cmd.Start when the program cannot be run
StartError == "exec: \"terraform\": executable file not found in $PATH"

\* fmt.Errorf(prefix + ": %w", err)
Wrap(prefix, err) == prefix \o ": " \o err

\* handleSSOTokenError: the wrapped error when the error text mentions SSO
\* or token, no error otherwise
handleSSOTokenError(err, stderrOutput) ==
    IF Contains(stderrOutput, "SSO") \/ Contains(stderrOutput, "token")
    THEN Wrap("SSO token error", err)
    ELSE ""

\* strings.TrimSpace for the white space of the model
IsSpace(c) == c \in {" ", "\t", "\n", "\r"}
RECURSIVE TrimLeft(_)
TrimLeft(s) ==
    IF s # "" /\ IsSpace(SubSeq(s, 1, 1)) THEN TrimLeft(SubSeq(s, 2, Len(s))) ELSE s
RECURSIVE TrimRight(_)
TrimRight(s) ==
    IF s # "" /\ IsSpace(SubSeq(s, Len(s), Len(s)))
    THEN TrimRight(SubSeq(s, 1, Len(s) - 1)) ELSE s
TrimSpace(s) == TrimRight(TrimLeft(s))

\* strings.Trim(s, `"'`)
IsQuote(c) == c \in {"\"", "'"}
RECURSIVE TrimQuotesLeft(_)
TrimQuotesLeft(s) ==
    IF s # "" /\ IsQuote(SubSeq(s, 1, 1)) THEN TrimQuotesLeft(SubSeq(s, 2, Len(s))) ELSE s
RECURSIVE TrimQuotesRight(_)
TrimQuotesRight(s) ==
    IF s # "" /\ IsQuote(SubSeq(s, Len(s), Len(s)))
    THEN TrimQuotesRight(SubSeq(s, 1, Len(s) - 1)) ELSE s
TrimQuotes(s) == TrimQuotesRight(TrimQuotesLeft(s))

\* the position of the first occurrence of a character, 0 when there is none
IndexOf(s, c) ==
    IF \E i \in 1..Len(s) : SubSeq(s, i, i) = c
    THEN CHOOSE i \in 1..Len(s) :
             SubSeq(s, i, i) = c /\ \A j \in 1..(i - 1) : SubSeq(s, j, j) # c
    ELSE 0

\* strings.Split(content, "\n")
RECURSIVE SplitLines(_)
SplitLines(content) ==
    IF IndexOf(content, "\n") = 0 THEN << content >>
    ELSE << SubSeq(content, 1, IndexOf(content, "\n") - 1) >>
         \o SplitLines(SubSeq(content, IndexOf(content, "\n") + 1, Len(content)))

\* ExtractProfileFromBackendConfig from the i-th line on: the value of the
\* first line that starts with profile and holds an "="
RECURSIVE ExtractProfileFrom(_, _)
ExtractProfileFrom(lines, i) ==
    IF i > Len(lines)
    THEN [profile |-> "", err |-> "profile parameter not found in backend config"]
    ELSE
      LET line == TrimSpace(lines[i])
          eq == IndexOf(line, "=")
      IN  IF HasPrefix(line, "#") \/ line = "" THEN ExtractProfileFrom(lines, i + 1)
          ELSE IF HasPrefix(line, "profile") /\ eq # 0
          THEN [profile |-> TrimQuotes(TrimSpace(SubSeq(line, eq + 1, Len(line)))),
                err |-> ""]
          ELSE ExtractProfileFrom(lines, i + 1)

ExtractProfileFromBackendConfig(content) == ExtractProfileFrom(SplitLines(content), 1)

\* the contents of the backend configuration files of the profiles
BackendConfigContent(name) ==
    IF name = "dev"
    THEN "# dev\nbucket = \"state-dev\"\n  profile = \"dev-sso\"\n"
    ELSE "bucket = \"state-prod\"\nregion = \"eu-west-1\"\n"

\* a process as the logs of the model record it
Launched(prog, args, dir, outcome) ==
    [prog |-> prog, args |-> args, dir |-> dir, outcome |-> outcome]

\* a refresh that logs in with the profile default when the file names none
RefreshAWSSSOWithDefaultProfile(content, loginOk) ==
    LET x == ExtractProfileFromBackendConfig(content)
        args == << "sso", "login", "--profile",
                   IF x.err # "" THEN "default" ELSE x.profile >>
    IN  IF ~loginOk
        THEN [err |-> Wrap("error running aws sso login", "exit status 1"),
              log |-> << Launched("aws", args, "", Exited(1, "", "")) >>]
        ELSE [err |-> "", log |-> << Launched("aws", args, "", Exited(0, "", "")) >>]

\* RefreshAWSSSOFromBackendConfig: reads the file, extracts the profile and
\* runs aws sso login for it (loginOk: the login succeeds)
RefreshAWSSSOFromBackendConfig(content, loginOk) ==
    LET x == ExtractProfileFromBackendConfig(content)
        args == << "sso", "login", "--profile", x.profile >>
    IN  IF x.err # ""
        THEN [err |-> Wrap("error extracting profile from backend config", x.err),
              log |-> << >>]
        ELSE IF ~loginOk
        THEN [err |-> Wrap("error running aws sso login", "exit status 1"),
              log |-> << Launched("aws", args, "", Exited(1, "", "")) >>]
        ELSE [err |-> "", log |-> << Launched("aws", args, "", Exited(0, "", "")) >>]

\* Executor.Init that runs init again whatever the refresh returned
ExecutorInitRetriesAfterFailedRefresh(profile, backendExists, startOk, first, loginOk, retry) ==
    LET cb == [NewCommandBuilder EXCEPT !.BackendConfig = profile.BackendConfig,
                                        !.BackendDir = profile.BackendDir]
        cmd == BuildInitCommand(cb)
        one == Launched("terraform", cmd.Args, cmd.Dir, first)
        refresh == RefreshAWSSSOFromBackendConfig(BackendConfigContent(profile.Name),
                                                  loginOk)
        two == Launched("terraform", cmd.Args, cmd.Dir, retry)
    IN  IF ~backendExists
        THEN [err |-> "backend config file not found: " \o GetBackendConfigPath(cb),
              log |-> << >>]
        ELSE IF ~startOk
        THEN [err |-> Wrap("error starting terraform init", StartError), log |-> << >>]
        ELSE IF first.code # 0 /\ IsAWSSSOTokenExpired(first.stderr)
        THEN [err |-> ExitError(retry), log |-> << one >> \o refresh.log \o << two >>]
        ELSE [err |-> ExitError(first), log |-> << one >>]

\* Executor.Init that never looks for the expiry signature: the error of the
\* first init is returned
ExecutorInitNoRefresh(profile, backendExists, startOk, first, loginOk, retry) ==
    LET cb == [NewCommandBuilder EXCEPT !.BackendConfig = profile.BackendConfig,
                                        !.BackendDir = profile.BackendDir]
        cmd == BuildInitCommand(cb)
    IN  IF ~backendExists
        THEN [err |-> "backend config file not found: " \o GetBackendConfigPath(cb),
              log |-> << >>]
        ELSE IF ~startOk
        THEN [err |-> Wrap("error starting terraform init", StartError), log |-> << >>]
        ELSE [err |-> ExitError(first),
              log |-> << Launched("terraform", cmd.Args, cmd.Dir, first) >>]

\* Executor.Init(profile): terraform init in the current directory; when it
\* fails and its stderr holds the expiry signature, the refresh and one more
\* init, whose error is returned as it is.
\*   backendExists  the backend config file exists
\*   startOk        terraform can be started
\*   first, retry   how the first and the second init end
\*   loginOk        aws sso login succeeds
ExecutorInit(profile, backendExists, startOk, first, loginOk, retry) ==
    LET cb == [NewCommandBuilder EXCEPT !.BackendConfig = profile.BackendConfig,
                                        !.BackendDir = profile.BackendDir]
        backendConfigPath == GetBackendConfigPath(cb)
        cmd == BuildInitCommand(cb)
        one == Launched("terraform", cmd.Args, cmd.Dir, first)
        refresh == RefreshAWSSSOFromBackendConfig(BackendConfigContent(profile.Name),
                                                  loginOk)
        two == Launched("terraform", cmd.Args, cmd.Dir, retry)
    IN  IF ~backendExists
        THEN [err |-> "backend config file not found: " \o backendConfigPath,
              log |-> << >>]
        ELSE IF ~startOk
        THEN [err |-> Wrap("error starting terraform init", StartError), log |-> << >>]
        ELSE IF first.code # 0 /\ IsAWSSSOTokenExpired(first.stderr)
        THEN IF refresh.err # ""
             THEN [err |-> Wrap("error refreshing AWS SSO token", refresh.err),
                   log |-> << one >> \o refresh.log]
             ELSE [err |-> ExitError(retry), log |-> << one >> \o refresh.log \o << two >>]
        ELSE [err |-> ExitError(first), log |-> << one >>]

\* -------------------------------------------------------------------------
\* State
\* -------------------------------------------------------------------------
VARIABLES
    \* --- the file system and the WorkspaceManager
    siblings,         \* the parent directory: name -> [kind, entries]
    foreignDirs,      \* what other operations and the operator put there
    wmBaseDirPath,    \* WorkspaceManager.BaseDirPath
    wmOperationID,    \* WorkspaceManager.OperationID
    ProfileSpaces,    \* WorkspaceManager.ProfileSpaces
    wsErr,            \* what the last CreateWorkspaces / Cleanup returned
    wsCreated,        \* the directory names CreateWorkspaces has made
    wsPc,             \* "new", "created", "cleaned", "cleanedTwice"
    \* --- Executor
    MaxConcurrency,   \* Executor.MaxConcurrency
    AdditionalArgs,   \* Executor.AdditionalArgs
    initLog,          \* the processes Executor.Init has run, in order
    initErr,          \* what Executor.Init returned
    \* --- one pass (parallelExecution)
    passPc,           \* "idle", "running", "closed", "displayed"
    execOpts,         \* the ExecutionOptions of the pass
    passProfiles,     \* the profiles given to parallelExecution
    taskPc,           \* per task: where its goroutine is
    taskResult,       \* per task: the ExecutionResult it has built
    semaphore,        \* the number of tokens in the semaphore channel
    resultsChan,      \* the results sent on resultsChan, in order
    spawned,          \* the processes the tasks of the pass have started
    \* --- executeCommand / PlanExecution / ReviewAndApproveResults
    mainPc,           \* where the main goroutine is
    command,          \* the sub-command: plan, apply or destroy
    profileArgs,      \* the profile names of the command line
    profiles,         \* the profiles GetProfile resolved
    results,          \* the results of the dry-run pass under review
    approvedProfiles, \* the names approved so far
    promptLog,        \* the prompts issued and their answers, in order
    plan,             \* the ExecutionPlan PlanExecution returned
    realResults,      \* what ExecutePlan returned
    dryResultNames,   \* the profile names of the results of the dry-run pass
    lastRead,         \* what ReadString returned at the latest prompt of the review
    \* --- the stream of a pass (streamChan, DisplayStreamingOutput)
    streamChan,       \* the StreamingOutput values buffered in streamChan
    emittedOf,        \* per profile: the values sent on streamChan, in order
    renderedOf,       \* per profile: the values printStreamingLine has printed
    displayPc,        \* DisplayStreamingOutput: "none", "ranging", "sending", "exited"
    doneSignals,      \* the number of values received from displayDone
    pipes,            \* per task: the lines its process has written, unread
    buffers,          \* per task: outputBuffer and stderrBuffer
    \* --- one call of CommandBuilder.buildTerraformCommand
    builder,          \* the CommandBuilder of the call
    built,            \* the exec.Cmd the call returned
    workDir,          \* the entries of the directory tapper is started in
    cfg,              \* the *Config in hand
    cfgPc,            \* where the Config came from: "none", "detected", "given"
    lookup,           \* what ListProfiles and GetProfile returned for it
    \* --- standard input as the prompts of a review read it
    stdin,            \* the bytes that wait on standard input, unread
    stdinKind,        \* what standard input is: "none", "tty" or "pipe"
    typed             \* the lines the operator has given, in order

wsVars == << siblings, foreignDirs, wmBaseDirPath, wmOperationID, ProfileSpaces,
             wsErr, wsCreated, wsPc >>
execVars == << MaxConcurrency, AdditionalArgs, initLog, initErr >>
passVars == << passPc, execOpts, passProfiles, taskPc, taskResult, semaphore,
               resultsChan, spawned >>
mainVars == << mainPc, command, profileArgs, profiles, results, approvedProfiles,
               promptLog, plan, realResults, dryResultNames, lastRead >>
streamVars == << streamChan, emittedOf, renderedOf, displayPc, doneSignals, pipes,
                 buffers >>
buildVars == << builder, built >>
profileVars == << workDir, cfg, cfgPc, lookup >>
inputVars == << stdin, stdinKind, typed >>
vars == << wsVars, execVars, passVars, mainVars, streamVars, buildVars,
           profileVars, inputVars >>
\* what the goroutines of a pass leave alone
nonPassVars == << wsVars, execVars, mainVars, streamVars, buildVars,
                 profileVars, inputVars >>

\* -------------------------------------------------------------------------
\* WorkspaceManager: the operations
\* -------------------------------------------------------------------------
\* CreateWorkspaces(profiles): one workspace directory per profile, the
\* mapping stored, the base directory linked in; returns at the first error
CreateWorkspaces(profileNames) ==
    \E failAt \in 0..Len(profileNames) :
        LET r == CreateWorkspacesFrom(1, profileNames, siblings, ProfileSpaces,
                                      failAt, wmBaseDirPath, wmOperationID)
        IN  /\ siblings' = r.siblings
            /\ ProfileSpaces' = r.spaces
            /\ wsErr' = r.err
            /\ wsCreated' = wsCreated \cup ((DOMAIN r.siblings) \ (DOMAIN siblings))
            /\ UNCHANGED << foreignDirs, wmBaseDirPath, wmOperationID >>

\* Cleanup that forgets to clear the map
CleanupKeepsMap ==
    LET matches == CleanupMatches(siblings, wmBaseDirPath, wmOperationID)
    IN  /\ \/ /\ siblings' = RemoveAll(siblings, matches)
              /\ wsErr' = "none"
           \/ \E kept \in (SUBSET matches) \ {{}} :
                  /\ siblings' = RemoveAll(siblings, matches \ kept)
                  /\ wsErr' = "remove"
        /\ UNCHANGED << ProfileSpaces, foreignDirs, wmBaseDirPath, wmOperationID,
                        wsCreated >>

\* Cleanup: removes the directories of the parent that match the pattern of
\* this operation and clears the map; returns at the first os.RemoveAll that
\* fails, leaving that directory, some of the others and the map
Cleanup ==
    LET matches == CleanupMatches(siblings, wmBaseDirPath, wmOperationID)
    IN  /\ \/ /\ siblings' = RemoveAll(siblings, matches)
              /\ ProfileSpaces' = EmptyMap
              /\ wsErr' = "none"
           \/ \E kept \in (SUBSET matches) \ {{}} :
                  /\ siblings' = RemoveAll(siblings, matches \ kept)
                  /\ wsErr' = "remove"
                  /\ UNCHANGED ProfileSpaces
        /\ UNCHANGED << foreignDirs, wmBaseDirPath, wmOperationID, wsCreated >>

\* -------------------------------------------------------------------------
\* SpecWs: CreateWorkspaces and Cleanup beside other operations
\* -------------------------------------------------------------------------
\* NewExecutor: the default of MaxConcurrency
DefaultMaxConcurrency == 5

\* the values of the variables a specification does not use
IdleExec ==
    /\ MaxConcurrency = DefaultMaxConcurrency
    /\ AdditionalArgs = << >>
    /\ initLog = << >>
    /\ initErr = ""
IdlePass ==
    /\ passPc = "idle"
    /\ execOpts = [Command |-> "", Args |-> << >>, DryRun |-> FALSE]
    /\ passProfiles = << >>
    /\ taskPc = << >>
    /\ taskResult = << >>
    /\ semaphore = 0
    /\ resultsChan = << >>
    /\ spawned = {}
\* no pass is streaming: no channel, no display goroutine
IdleStream ==
    /\ streamChan = << >>
    /\ emittedOf = << >>
    /\ renderedOf = << >>
    /\ displayPc = "none"
    /\ doneSignals = 0
    /\ pipes = << >>
    /\ buffers = << >>
\* no command is being built
NoCmd == Cmd(<< >>, "")
IdleBuild ==
    /\ builder = NewCommandBuilder
    /\ built = NoCmd
\* no Config is being detected or queried
NoConfig == [Profiles |-> << >>]
NoLookup ==
    [asked |-> FALSE, name |-> "", names |-> << >>, found |-> FALSE,
     profile |-> Profile("")]
IdleProfiles ==
    /\ workDir = {}
    /\ cfg = NoConfig
    /\ cfgPc = "none"
    /\ lookup = NoLookup
IdleInput ==
    /\ stdin = ""
    /\ stdinKind = "none"
    /\ typed = << >>
\* no answer has been read
NoRead == [err |-> FALSE, line |-> ""]
IdleMain ==
    /\ mainPc = "none"
    /\ command = ""
    /\ profileArgs = << >>
    /\ profiles = << >>
    /\ results = << >>
    /\ approvedProfiles = << >>
    /\ promptLog = << >>
    /\ plan = [Command |-> "", Profiles |-> << >>, ApprovedProfiles |-> << >>]
    /\ realResults = << >>
    /\ dryResultNames = << >>
    /\ lastRead = NoRead

\* the parent directory with the source trees only
TreesOnly(tree) == [n \in BaseNames |-> [kind |-> "dir", entries |-> tree]]

\* NewWorkspaceManager in a source tree of the parent directory
InitWs ==
    /\ siblings = TreesOnly(TreeInitialised)
    /\ foreignDirs = siblings
    /\ \E b \in BaseNames : wmBaseDirPath = FilepathJoin(ParentDir, b)
    /\ wmOperationID = OwnID
    /\ ProfileSpaces = EmptyMap
    /\ wsErr = "none"
    /\ wsCreated = {}
    /\ wsPc = "new"
    /\ IdleExec /\ IdlePass /\ IdleMain /\ IdleStream /\ IdleBuild /\ IdleProfiles /\ IdleInput

WsCreateWorkspaces ==
    /\ wsPc = "new"
    /\ \E names \in SeqsOf(ProfileNames, 0, MaxProfiles) : CreateWorkspaces(names)
    /\ wsPc' = "created"
    /\ UNCHANGED << execVars, passVars, mainVars >>
    /\ UNCHANGED << streamVars, buildVars, profileVars, inputVars >>

WsCleanup ==
    /\ wsPc \in {"created", "cleaned"}
    /\ Cleanup
    /\ wsPc' = IF wsErr' # "none" THEN wsPc
               ELSE IF wsPc = "created" THEN "cleaned" ELSE "cleanedTwice"
    /\ UNCHANGED << execVars, passVars, mainVars >>
    /\ UNCHANGED << streamVars, buildVars, profileVars, inputVars >>

\* the workspaces of other operations among the directories
ForeignWorkspaces == (DOMAIN foreignDirs) \ BaseNames

\* another invocation, with another operation identifier, in the same or in
\* another source tree of the parent directory, allocates a workspace
OtherOperationCreates ==
    /\ Cardinality(ForeignWorkspaces) < MaxOthers
    /\ \E b \in BaseNames, p \in ProfileNames, id \in OperationIDs \ {wmOperationID} :
        LET name == WorkspaceName(b, p, id)
            r == CreateWorkspacesFrom(1, << p >>, siblings, EmptyMap, 0,
                                      FilepathJoin(ParentDir, b), id)
        IN  /\ name \notin DOMAIN siblings
            /\ siblings' = r.siblings
            /\ foreignDirs' = (name :> r.siblings[name]) @@ foreignDirs
    /\ UNCHANGED << wmBaseDirPath, wmOperationID, ProfileSpaces, wsErr, wsCreated, wsPc >>
    /\ UNCHANGED << execVars, passVars, mainVars >>
    /\ UNCHANGED << streamVars, buildVars, profileVars, inputVars >>

NextWs == WsCreateWorkspaces \/ WsCleanup \/ OtherOperationCreates

SpecWs == InitWs /\ [][NextWs]_vars

\* -------------------------------------------------------------------------
\* One pass: parallelExecution and its task goroutines (executor)
\* -------------------------------------------------------------------------
\* the zero ExecutionResult
NoResult ==
    [ProfileName |-> "", Success |-> FALSE, Output |-> "", Error |-> "",
     WorkingDir |-> ""]

\* errorResultWithStreaming on a fresh result that has lost the profile name
errorResultLosesName(result, err) ==
    [result EXCEPT !.ProfileName = "", !.Error = err, !.Success = FALSE]

\* errorResultWithStreaming: the result with the error set
errorResult(result, err) == [result EXCEPT !.Error = err, !.Success = FALSE]

\* a process that has not exited yet
Running == [code |-> -1, stdout |-> "", stderr |-> ""]

\* a process a task has started
Spawn(i, name, kind, cmd) ==
    [task |-> i, profile |-> name, kind |-> kind, prog |-> cmd.Path,
     args |-> cmd.Args, dir |-> cmd.Dir, outcome |-> Running]

\* the process of a task that is running
RunningOf(i) == CHOOSE e \in spawned : e.task = i /\ e.outcome = Running

\* spawned with the running process of task i exited
ExitedIn(i, outcome) ==
    (spawned \ {RunningOf(i)}) \cup {[RunningOf(i) EXCEPT !.outcome = outcome]}

\* what bufio.Scanner and the buffers keep of a stream: every line and "\n"
Buffered(text) == IF text = "" THEN "" ELSE text \o "\n"

\* a command builder of initInWorkspaceWithStreaming without WithWorkingDir
InitBuilderInSourceTree(profile, workspacePath) ==
    [NewCommandBuilder EXCEPT !.BackendConfig = profile.BackendConfig,
                              !.BackendDir = profile.BackendDir]

\* the command builder of initInWorkspaceWithStreaming
InitBuilder(profile, workspacePath) ==
    [NewCommandBuilder EXCEPT !.WorkingDir = workspacePath,
                              !.BackendConfig = profile.BackendConfig,
                              !.BackendDir = profile.BackendDir]

\* parallelExecution up to executeParallelCommand: the channels are made and
\* one goroutine per profile is started
parallelExecution(profs, opts) ==
    /\ passPc' = "running"
    /\ execOpts' = opts
    /\ passProfiles' = profs
    /\ taskPc' = [i \in 1..Len(profs) |-> "queued"]
    /\ taskResult' = [i \in 1..Len(profs) |-> NoResult]
    /\ semaphore' = 0
    /\ resultsChan' = << >>
    /\ spawned' = {}

\* a semaphore send that never blocks
AcquireNeverBlocks(i) == TRUE

\* semaphore <- struct{}{}: blocks while the channel is full
AcquireGuard(i) == semaphore < MaxConcurrency

TaskAcquire(i) ==
    /\ passPc = "running"
    /\ taskPc[i] = "queued"
    /\ AcquireGuard(i)
    /\ semaphore' = semaphore + 1
    /\ taskPc' = [taskPc EXCEPT ![i] = "acquired"]
    /\ UNCHANGED << passPc, execOpts, passProfiles, taskResult, resultsChan, spawned >>
    /\ UNCHANGED nonPassVars

\* a goroutine end that, on a failed result, cancels the tasks that still
\* wait for the semaphore
TaskFinishCancelsSiblings(i, result) ==
    /\ taskResult' = [taskResult EXCEPT ![i] = result]
    /\ resultsChan' = Append(resultsChan, result)
    /\ semaphore' = semaphore - 1
    /\ taskPc' = [j \in DOMAIN taskPc |->
                     IF j = i \/ (result.Error # "" /\ taskPc[j] = "queued")
                     THEN "done" ELSE taskPc[j]]

\* a goroutine end that keeps its slot of the semaphore
TaskFinishKeepsSlot(i, result) ==
    /\ taskResult' = [taskResult EXCEPT ![i] = result]
    /\ resultsChan' = Append(resultsChan, result)
    /\ semaphore' = semaphore
    /\ taskPc' = [taskPc EXCEPT ![i] = "done"]

\* the end of the goroutine of executeParallelCommand: the result is sent on
\* resultsChan (buffered for every profile: the send never blocks), the
\* semaphore released and the wait group told
TaskFinish(i, result) ==
    /\ taskResult' = [taskResult EXCEPT ![i] = result]
    /\ resultsChan' = Append(resultsChan, result)
    /\ semaphore' = semaphore - 1
    /\ taskPc' = [taskPc EXCEPT ![i] = "done"]

\* executeForProfileWithStreaming up to the start of terraform init in the
\* workspace (initInWorkspaceWithStreaming up to cmd.Start); without
\* workspace or without process the goroutine runs to its end
TaskStart(i) ==
    /\ taskPc[i] = "acquired"
    /\ LET profile == passProfiles[i]
           ws == GetWorkspacePath(ProfileSpaces, profile.Name)
           result == [NoResult EXCEPT !.ProfileName = profile.Name,
                                      !.WorkingDir = ws.path]
           cmd == BuildInitCommand(InitBuilder(profile, ws.path))
       IN  IF ~ws.exists
           THEN /\ TaskFinish(i,
                       errorResult([NoResult EXCEPT !.ProfileName = profile.Name],
                                   "workspace path not found for profile "
                                       \o profile.Name))
                /\ UNCHANGED spawned
           ELSE \E startOk \in BOOLEAN :
                IF ~startOk
                THEN /\ TaskFinish(i, errorResult(result,
                                          Wrap("terraform init failed", StartError)))
                     /\ UNCHANGED spawned
                ELSE /\ taskResult' = [taskResult EXCEPT ![i] = result]
                     /\ taskPc' = [taskPc EXCEPT ![i] = "init"]
                     /\ spawned' = spawned \cup {Spawn(i, profile.Name, "init", cmd)}
                     /\ UNCHANGED << semaphore, resultsChan >>
    /\ UNCHANGED << passPc, execOpts, passProfiles >>
    /\ UNCHANGED nonPassVars

\* initInWorkspaceWithStreaming that runs init again when it has failed
TaskInitExitRetries(i) ==
    /\ taskPc[i] = "init"
    /\ \E outcome \in ProcessOutcomes(<< "init" >>) :
        IF outcome.code # 0
        THEN /\ spawned' = ExitedIn(i, outcome) \cup {RunningOf(i)}
             /\ UNCHANGED << taskPc, taskResult, semaphore, resultsChan >>
        ELSE /\ TaskFinish(i, [taskResult[i] EXCEPT !.Success = TRUE])
             /\ spawned' = ExitedIn(i, outcome)
    /\ UNCHANGED << passPc, execOpts, passProfiles >>
    /\ UNCHANGED nonPassVars

\* a task that starts the command before the var file is validated
TaskInitExitStartsBeforeValidation(i) ==
    /\ taskPc[i] = "init"
    /\ \E outcome \in ProcessOutcomes(<< "init" >>), varFileExists \in BOOLEAN :
        LET profile == passProfiles[i]
            result == taskResult[i]
            b == BuildCommandFromProfile(profile, result.WorkingDir, execOpts,
                                         varFileExists)
            started == ExitedIn(i, outcome)
                           \cup {Spawn(i, profile.Name, "cmd", b.cmd)}
        IN  IF outcome.code # 0
            THEN /\ TaskFinish(i, errorResult(result,
                        Wrap("terraform init failed", ExitError(outcome))))
                 /\ spawned' = ExitedIn(i, outcome)
            ELSE IF b.err # ""
            THEN /\ TaskFinish(i, errorResult(result,
                        Wrap("command build failed", b.err)))
                 /\ spawned' = started
            ELSE /\ taskPc' = [taskPc EXCEPT ![i] = "cmd"]
                 /\ spawned' = started
                 /\ UNCHANGED << taskResult, semaphore, resultsChan >>
    /\ UNCHANGED << passPc, execOpts, passProfiles >>
    /\ UNCHANGED nonPassVars

\* initInWorkspaceWithStreaming from cmd.Wait on: a failed init is returned
\* as it is, without refresh and without retry, and ends the goroutine, as
\* do a command that cannot be built or started; after a successful init
\* the command is built and started
TaskInitExit(i) ==
    /\ taskPc[i] = "init"
    /\ \E outcome \in ProcessOutcomes(<< "init" >>),
          varFileExists \in BOOLEAN, startOk \in BOOLEAN :
        LET profile == passProfiles[i]
            result == taskResult[i]
            b == BuildCommandFromProfile(profile, result.WorkingDir, execOpts,
                                         varFileExists)
            fail(err) ==
                /\ TaskFinish(i, errorResult(result, err))
                /\ spawned' = ExitedIn(i, outcome)
        IN  IF outcome.code # 0
            THEN fail(Wrap("terraform init failed", ExitError(outcome)))
            ELSE IF b.err # ""
            THEN fail(Wrap("command build failed", b.err))
            ELSE IF ~startOk
            THEN fail(StartError)
            ELSE /\ taskPc' = [taskPc EXCEPT ![i] = "cmd"]
                 /\ spawned' = ExitedIn(i, outcome)
                                 \cup {Spawn(i, profile.Name, "cmd", b.cmd)}
                 /\ UNCHANGED << taskResult, semaphore, resultsChan >>
    /\ UNCHANGED << passPc, execOpts, passProfiles >>
    /\ UNCHANGED nonPassVars

\* executeCommandWithStreaming from wg.Wait on: both readers have drained,
\* the process has exited and the result is built
CommandResult(result, outcome) ==
    LET stderrOutput == Buffered(outcome.stderr)
        combinedOutput == Buffered(outcome.stdout) \o stderrOutput
        err == ExitError(outcome)
        ssoErr == handleSSOTokenError(err, stderrOutput)
    IN  IF outcome.code # 0
        THEN [result EXCEPT !.Error = IF ssoErr # "" THEN ssoErr ELSE err,
                            !.Success = FALSE, !.Output = combinedOutput]
        ELSE [result EXCEPT !.Success = TRUE, !.Output = combinedOutput]

\* a task that starts its command again when it has failed with the expiry
\* signature
TaskCmdExitRetries(i) ==
    /\ taskPc[i] = "cmd"
    /\ \E outcome \in ProcessOutcomes(RunningOf(i).args) :
        IF outcome.code # 0 /\ IsAWSSSOTokenExpired(outcome.stderr)
        THEN /\ spawned' = ExitedIn(i, outcome) \cup {RunningOf(i)}
             /\ UNCHANGED << taskPc, taskResult, semaphore, resultsChan >>
        ELSE /\ TaskFinish(i, CommandResult(taskResult[i], outcome))
             /\ spawned' = ExitedIn(i, outcome)
    /\ UNCHANGED << passPc, execOpts, passProfiles >>
    /\ UNCHANGED nonPassVars

\* the command of a task exits: its result ends the goroutine
TaskCmdExit(i) ==
    /\ taskPc[i] = "cmd"
    /\ \E outcome \in ProcessOutcomes(RunningOf(i).args) :
        /\ TaskFinish(i, CommandResult(taskResult[i], outcome))
        /\ spawned' = ExitedIn(i, outcome)
    /\ UNCHANGED << passPc, execOpts, passProfiles >>
    /\ UNCHANGED nonPassVars

\* wg.Wait() has returned: the channels are closed
PassClose ==
    /\ passPc = "running"
    /\ \A i \in DOMAIN taskPc : taskPc[i] = "done"
    /\ passPc' = "closed"
    /\ UNCHANGED << execOpts, passProfiles, taskPc, taskResult, semaphore,
                    resultsChan, spawned >>
    /\ UNCHANGED nonPassVars

\* DisplayStreamingOutput has left its loop over the closed channel and
\* sends on displayDone
DisplayDone ==
    /\ passPc = "closed"
    /\ passPc' = "displayed"
    /\ UNCHANGED << execOpts, passProfiles, taskPc, taskResult, semaphore,
                    resultsChan, spawned >>
    /\ UNCHANGED nonPassVars

\* the steps of a pass
PassStep ==
    \/ \E i \in DOMAIN taskPc : TaskAcquire(i)
    \/ \E i \in DOMAIN taskPc : TaskStart(i)
    \/ \E i \in DOMAIN taskPc : TaskInitExit(i)
    \/ \E i \in DOMAIN taskPc : TaskCmdExit(i)
    \/ PassClose
    \/ DisplayDone

\* -------------------------------------------------------------------------
\* The review (InteractionHandler)
\* -------------------------------------------------------------------------
\* strings.ToLower for the letters of the model
Lower(c) ==
    IF c = "Y" THEN "y" ELSE IF c = "E" THEN "e" ELSE IF c = "S" THEN "s"
    ELSE IF c = "N" THEN "n" ELSE IF c = "O" THEN "o" ELSE c
RECURSIVE ToLower(_)
ToLower(s) ==
    IF s = "" THEN "" ELSE Lower(SubSeq(s, 1, 1)) \o ToLower(SubSeq(s, 2, Len(s)))

\* what reader.ReadString('\n') can return: a line the operator typed, or
\* an error (the input has ended)
AnswerLines == {"y\n", "yes\n", "YES\n", " Y \n", "n\n", "no\n", "\n", "yess\n"}
StdinReads ==
    {[err |-> FALSE, line |-> l] : l \in AnswerLines} \cup {[err |-> TRUE, line |-> ""]}

\* getYesNoResponse that takes a failed read for a yes
getYesNoResponseErrorApproves(read) ==
    IF read.err THEN TRUE
    ELSE TrimSpace(ToLower(read.line)) \in {"y", "yes"}

\* getYesNoResponse that takes every answer beginning with y for a yes
getYesNoResponseLeadingY(read) ==
    IF read.err THEN FALSE
    ELSE HasPrefix(TrimSpace(ToLower(read.line)), "y")

\* getYesNoResponse: a read error counts as no
getYesNoResponse(read) ==
    IF read.err THEN FALSE
    ELSE TrimSpace(ToLower(read.line)) \in {"y", "yes"}

\* a prompt and its answer, as promptLog records them
Prompt(kind, name, answer) == [kind |-> kind, name |-> name, answer |-> answer]

\* ConfirmBatchExecution that returns the approved names whatever the answer
ConfirmBatchIgnoresAnswer(approved, yes) == approved

\* ConfirmBatchExecution: the approved names when the answer is yes, none
\* otherwise
ConfirmBatchExecution(approved, yes) == IF yes THEN approved ELSE << >>

\* ReviewAndApproveResults without its test for a single result
AsksBatchForOne(reviewed, approved) == Len(approved) # 0

\* whether ReviewAndApproveResults asks for the batch confirmation after
\* its loop
AsksBatch(reviewed, approved) == Len(approved) # 0 /\ Len(reviewed) # 1

\* -------------------------------------------------------------------------
\* executeCommand (cmd/tapper/root.go) and PlanExecution / ExecutePlan
\* -------------------------------------------------------------------------
Commands == {"plan", "apply", "destroy"}

\* the names the command line can give: the profiles and one that no file
\* defines
ArgNames == ProfileNames \cup {"ghost"}

\* isActiveFile (pkg/utils/dir.go)
isActiveFile(name) ==
    /\ HasSuffix(name, ".tf") \/ HasSuffix(name, ".tf.json")
    /\ ~(HasPrefix(name, ".") \/ HasSuffix(name, "~")
           \/ (HasPrefix(name, "#") /\ HasSuffix(name, "#")))

\* IsActiveDir: the current directory holds an active terraform file
IsActiveDir ==
    \E e \in siblings[FilepathBase(wmBaseDirPath)].entries :
        e.kind # "dir" /\ isActiveFile(e.name)

\* the names of a list of profiles or results
NamesOf(profs) == [i \in 1..Len(profs) |-> profs[i].Name]
ResultNames(rs) == [i \in 1..Len(rs) |-> rs[i].ProfileName]

\* the parent directory with a workspace that an earlier invocation in the
\* same source tree has left behind
StaleWorkspaces(tree) ==
    CreateWorkspacesFrom(1, << "dev" >>, TreesOnly(tree), EmptyMap, 0,
                         FilepathJoin(ParentDir, "tf"), StaleID).siblings

\* the shell has started tapper <command> <profileArgs...> in /work/tf
Init ==
    /\ \E tree \in {TreeInitialised, TreeInactive} : siblings = StaleWorkspaces(tree)
    /\ foreignDirs = siblings
    /\ wmBaseDirPath = FilepathJoin(ParentDir, "tf")
    /\ wmOperationID = OwnID
    /\ ProfileSpaces = EmptyMap
    /\ wsErr = "none"
    /\ wsCreated = {}
    /\ wsPc = "new"
    /\ IdleExec /\ IdlePass /\ IdleStream /\ IdleBuild /\ IdleProfiles /\ IdleInput
    /\ mainPc = "start"
    /\ command \in Commands
    /\ profileArgs \in SeqsOf(ArgNames, 1, MaxProfiles)
    /\ profiles = << >>
    /\ results = << >>
    /\ approvedProfiles = << >>
    /\ promptLog = << >>
    /\ plan = [Command |-> "", Profiles |-> << >>, ApprovedProfiles |-> << >>]
    /\ realResults = << >>
    /\ dryResultNames = << >>
    /\ lastRead = NoRead

\* executeCommand up to the call of PlanExecution: IsActiveDir, GetProfile
\* for every name, NewExecutor, the lock flag
ResolveProfiles ==
    /\ mainPc = "start"
    /\ IF ~IsActiveDir
          \/ \E i \in 1..Len(profileArgs) : ~GetProfile(Config, profileArgs[i]).found
       THEN /\ mainPc' = "exit1"
            /\ UNCHANGED << profiles, AdditionalArgs >>
       ELSE /\ profiles' = [i \in 1..Len(profileArgs) |->
                               GetProfile(Config, profileArgs[i]).profile]
            /\ \E lock \in {"true", "false"} : AdditionalArgs' = << "-lock=" \o lock >>
            /\ mainPc' = "plan"
    /\ UNCHANGED << command, profileArgs, results, approvedProfiles, promptLog, plan,
                    realResults, dryResultNames, lastRead >>
    /\ UNCHANGED << MaxConcurrency, initLog, initErr >>
    /\ UNCHANGED << wsVars, passVars >>
    /\ UNCHANGED << streamVars, buildVars, profileVars, inputVars >>

\* PlanExecution: Init(profiles[0]); its error ends the invocation
PlanExecutionInit ==
    /\ mainPc = "plan"
    /\ \E backendExists \in BOOLEAN, startOk \in BOOLEAN, loginOk \in BOOLEAN,
          first \in ProcessOutcomes(<< "init" >>),
          retry \in ProcessOutcomes(<< "init" >>) :
        LET r == ExecutorInit(profiles[1], backendExists, startOk, first, loginOk, retry)
        IN  /\ initLog' = r.log
            /\ initErr' = r.err
            /\ mainPc' = IF r.err # "" THEN "exit1" ELSE "allocate"
    /\ UNCHANGED << command, profileArgs, profiles, results, approvedProfiles,
                    promptLog, plan, realResults, dryResultNames, lastRead >>
    /\ UNCHANGED << MaxConcurrency, AdditionalArgs >>
    /\ UNCHANGED << wsVars, passVars >>
    /\ UNCHANGED << streamVars, buildVars, profileVars, inputVars >>

\* PlanExecution that goes on after CreateWorkspaces has failed
AllocationFailedNever(err) == FALSE

\* PlanExecution: err != nil after CreateWorkspaces
AllocationFailed(err) == err # "none"

\* PlanExecution: CreateWorkspaces; its error ends the invocation, otherwise
\* the dry-run pass starts
PlanExecutionAllocate ==
    /\ mainPc = "allocate"
    /\ CreateWorkspaces(NamesOf(profiles))
    /\ wsPc' = "created"
    /\ IF AllocationFailed(wsErr')
       THEN mainPc' = "exit1" /\ UNCHANGED passVars
       ELSE /\ parallelExecution(profiles, PreviewOptions(command, AdditionalArgs))
            /\ mainPc' = "dryRun"
    /\ UNCHANGED << command, profileArgs, profiles, results, approvedProfiles,
                    promptLog, plan, realResults, dryResultNames, lastRead >>
    /\ UNCHANGED execVars
    /\ UNCHANGED << streamVars, buildVars, profileVars, inputVars >>

\* a PlanExecution whose review does not wait for parallelExecution to return
PlanExecutionCollectEarly ==
    /\ mainPc = "dryRun"
    /\ passPc # "idle"
    /\ results' = resultsChan
    /\ dryResultNames' = ResultNames(resultsChan)
    /\ approvedProfiles' = << >>
    /\ mainPc' = "review"
    /\ UNCHANGED << command, profileArgs, profiles, promptLog, plan, realResults,
                    lastRead >>
    /\ UNCHANGED << wsVars, execVars, passVars >>
    /\ UNCHANGED << streamVars, buildVars, profileVars, inputVars >>

\* parallelExecution returns to PlanExecution: the results are read from the
\* closed channel and the review starts
PlanExecutionCollect ==
    /\ mainPc = "dryRun"
    /\ passPc = "displayed"
    /\ results' = resultsChan
    /\ dryResultNames' = ResultNames(resultsChan)
    /\ approvedProfiles' = << >>
    /\ mainPc' = "review"
    /\ UNCHANGED << command, profileArgs, profiles, promptLog, plan, realResults,
                    lastRead >>
    /\ UNCHANGED << wsVars, execVars, passVars >>
    /\ UNCHANGED << streamVars, buildVars, profileVars, inputVars >>

\* a review loop that passes over a failed result without a prompt
ReviewPromptSkipsFailed ==
    /\ mainPc = "review"
    /\ Len(promptLog) < Len(results)
    /\ LET k == Len(promptLog) + 1
           result == results[k]
       IN  IF result.Error # ""
           THEN /\ results' = SubSeq(results, 1, k - 1) \o SubSeq(results, k + 1, Len(results))
                /\ UNCHANGED << promptLog, approvedProfiles, lastRead >>
           ELSE \E read \in StdinReads :
                LET approved == getYesNoResponse(read)
                IN  /\ promptLog' = Append(promptLog,
                                           Prompt("profile", result.ProfileName, approved))
                    /\ approvedProfiles' = IF approved
                                           THEN Append(approvedProfiles, result.ProfileName)
                                           ELSE approvedProfiles
                    /\ lastRead' = read
                    /\ UNCHANGED results
    /\ UNCHANGED << mainPc, command, profileArgs, profiles, plan, realResults,
                    dryResultNames >>
    /\ UNCHANGED << wsVars, execVars, passVars >>
    /\ UNCHANGED << streamVars, buildVars, profileVars, inputVars >>

\* ReviewAndApproveResults: the prompt for the next result and its answer
ReviewPrompt ==
    /\ mainPc = "review"
    /\ Len(promptLog) < Len(results)
    /\ \E read \in StdinReads :
        LET result == results[Len(promptLog) + 1]
            approved == getYesNoResponse(read)
        IN  /\ promptLog' = Append(promptLog, Prompt("profile", result.ProfileName, approved))
            /\ approvedProfiles' = IF approved
                                   THEN Append(approvedProfiles, result.ProfileName)
                                   ELSE approvedProfiles
            /\ lastRead' = read
    /\ UNCHANGED << mainPc, command, profileArgs, profiles, results, plan, realResults,
                    dryResultNames >>
    /\ UNCHANGED << wsVars, execVars, passVars >>
    /\ UNCHANGED << streamVars, buildVars, profileVars, inputVars >>

\* ReviewAndApproveResults after its loop, and the return of PlanExecution:
\* nothing approved, a single result, or the batch confirmation
ReviewFinish ==
    /\ mainPc = "review"
    /\ Len(promptLog) = Len(results)
    /\ \E read \in StdinReads :
        LET yes == getYesNoResponse(read)
        IN  IF AsksBatch(results, approvedProfiles)
            THEN /\ promptLog' = Append(promptLog, Prompt("batch", "", yes))
                 /\ plan' = [Command |-> command, Profiles |-> profiles,
                             ApprovedProfiles |->
                                 ConfirmBatchExecution(approvedProfiles, yes)]
                 /\ lastRead' = read
            ELSE /\ plan' = [Command |-> command, Profiles |-> profiles,
                             ApprovedProfiles |-> approvedProfiles]
                 /\ UNCHANGED << promptLog, lastRead >>
    /\ results' = << >>
    /\ approvedProfiles' = << >>
    /\ mainPc' = "planned"
    /\ UNCHANGED << command, profileArgs, profiles, realResults, dryResultNames >>
    /\ UNCHANGED << wsVars, execVars, passVars >>
    /\ UNCHANGED << streamVars, buildVars, profileVars, inputVars >>

\* a plan that runs nothing: executeCommand returns without starting the
\* real pass
NoneApprovedNever(p) == FALSE

\* len(plan.ApprovedProfiles) == 0
NoneApproved(p) == Len(p.ApprovedProfiles) = 0

\* the deferred WorkspaceCleanup of executeCommand
DeferredCleanup ==
    /\ Cleanup
    /\ wsPc' = IF wsErr' = "none" THEN "cleaned" ELSE wsPc

\* executeCommand after PlanExecution: with no approved profile it returns
\* (the deferred cleanup runs), otherwise ExecutePlan starts the real pass
MainAfterPlan ==
    /\ mainPc = "planned"
    /\ IF NoneApproved(plan)
       THEN /\ DeferredCleanup
            /\ mainPc' = "done"
            /\ UNCHANGED passVars
       ELSE /\ parallelExecution(
                   filterApprovedProfiles(plan.Profiles, plan.ApprovedProfiles),
                   ExecuteOptions(plan.Command, AdditionalArgs))
            /\ mainPc' = "realRun"
            /\ UNCHANGED wsVars
    /\ UNCHANGED << command, profileArgs, profiles, results, approvedProfiles,
                    promptLog, plan, realResults, dryResultNames >>
    /\ lastRead' = NoRead
    /\ UNCHANGED execVars
    /\ UNCHANGED << streamVars, buildVars, profileVars, inputVars >>

\* an executeCommand whose cleanup does not wait for ExecutePlan to return
MainReturnEarly ==
    /\ mainPc = "realRun"
    /\ passPc # "idle"
    /\ realResults' = resultsChan
    /\ DeferredCleanup
    /\ mainPc' = "done"
    /\ UNCHANGED << command, profileArgs, profiles, results, approvedProfiles,
                    promptLog, plan, dryResultNames, lastRead >>
    /\ UNCHANGED << execVars, passVars >>
    /\ UNCHANGED << streamVars, buildVars, profileVars, inputVars >>

\* ExecutePlan returns and executeCommand ends: the deferred cleanup runs
MainReturn ==
    /\ mainPc = "realRun"
    /\ passPc = "displayed"
    /\ realResults' = resultsChan
    /\ DeferredCleanup
    /\ mainPc' = "done"
    /\ UNCHANGED << command, profileArgs, profiles, results, approvedProfiles,
                    promptLog, plan, dryResultNames, lastRead >>
    /\ UNCHANGED << execVars, passVars >>
    /\ UNCHANGED << streamVars, buildVars, profileVars, inputVars >>

Next ==
    \/ ResolveProfiles
    \/ PlanExecutionInit
    \/ PlanExecutionAllocate
    \/ PlanExecutionCollect
    \/ ReviewPrompt
    \/ ReviewFinish
    \/ MainAfterPlan
    \/ MainReturn
    \/ PassStep

Spec == Init /\ [][Next]_vars

\* -------------------------------------------------------------------------
\* SpecPass: ExecutePlan on an executor with a small MaxConcurrency
\* -------------------------------------------------------------------------
\* the names of the profiles of the plan
TaskNames == << "dev", "prod", "qa", "stage", "test" >>
PlanNames == SubSeq(TaskNames, 1, NumTasks)

\* an executor whose workspaces exist for all the profiles of the plan or
\* for all but the first, with MaxConcurrency set by the caller, and a plan
\* that approves every profile
InitPass ==
    /\ \E present \in {PlanNames, Tail(PlanNames)} :
        LET r == CreateWorkspacesFrom(1, present, TreesOnly(TreeInitialised), EmptyMap,
                                      0, FilepathJoin(ParentDir, "tf"), OwnID)
        IN  /\ siblings = r.siblings
            /\ ProfileSpaces = r.spaces
            /\ wsCreated = (DOMAIN r.siblings) \ BaseNames
    /\ foreignDirs = TreesOnly(TreeInitialised)
    /\ wmBaseDirPath = FilepathJoin(ParentDir, "tf")
    /\ wmOperationID = OwnID
    /\ wsErr = "none"
    /\ wsPc = "created"
    /\ MaxConcurrency = MaxCap
    /\ AdditionalArgs = << "-lock=true" >>
    /\ initLog = << >>
    /\ initErr = ""
    /\ IdlePass /\ IdleStream /\ IdleBuild /\ IdleProfiles /\ IdleInput
    /\ mainPc = "api"
    /\ command \in {"apply", "validate"}
    /\ profileArgs = PlanNames
    /\ profiles = [i \in 1..NumTasks |-> Profile(PlanNames[i])]
    /\ results = << >>
    /\ approvedProfiles = << >>
    /\ promptLog = << >>
    /\ plan = [Command |-> command, Profiles |-> profiles, ApprovedProfiles |-> PlanNames]
    /\ realResults = << >>
    /\ dryResultNames = << >>
    /\ lastRead = NoRead

\* ExecutePlan(plan) up to the start of the goroutines
ApiExecutePlan ==
    /\ mainPc = "api"
    /\ parallelExecution(filterApprovedProfiles(plan.Profiles, plan.ApprovedProfiles),
                         ExecuteOptions(plan.Command, AdditionalArgs))
    /\ mainPc' = "realRun"
    /\ UNCHANGED << command, profileArgs, profiles, results, approvedProfiles,
                    promptLog, plan, realResults, dryResultNames, lastRead >>
    /\ UNCHANGED << wsVars, execVars >>
    /\ UNCHANGED << streamVars, buildVars, profileVars, inputVars >>

\* ExecutePlan returns the results read from the closed channel
ApiExecutePlanReturn ==
    /\ mainPc = "realRun"
    /\ passPc = "displayed"
    /\ realResults' = resultsChan
    /\ mainPc' = "done"
    /\ UNCHANGED << command, profileArgs, profiles, results, approvedProfiles,
                    promptLog, plan, dryResultNames, lastRead >>
    /\ UNCHANGED << wsVars, execVars, passVars >>
    /\ UNCHANGED << streamVars, buildVars, profileVars, inputVars >>

NextPass == ApiExecutePlan \/ PassStep \/ ApiExecutePlanReturn

SpecPass == InitPass /\ [][NextPass]_vars

\* -------------------------------------------------------------------------
\* The stream of a pass: the events of the tasks, streamChan and the
\* display goroutine (executor, StreamingOutputHandler)
\* -------------------------------------------------------------------------
\* the capacity of streamChan in the model (the program makes it with 100)
StreamCap == 2
\* the profiles of the pass whose stream is followed
StreamNames == << "dev", "prod" >>

\* a StreamingOutput value; the Timestamp is left out
StreamingOutput(name, line, isError) ==
    [ProfileName |-> name, Line |-> line, IsError |-> isError]

\* what a terraform process writes, line by line, and its exit code
Lines(code, out, err) == [code |-> code, out |-> out, err |-> err]
StreamOutcomes(kind) ==
    IF kind = "init"
    THEN { Lines(0, << "Terraform has been successfully initialized!" >>, << >>),
           Lines(1, << >>, << "Error: Failed to get existing workspaces" >>) }
    ELSE { Lines(0, << "No changes.", "" >>, << >>),
           Lines(1, << "Refreshing state..." >>, << "Error: invalid token" >>),
           Lines(1, << >>, << "Error: Invalid reference" >>) }

\* the bytes of a stream: every line followed by "\n"
RECURSIVE JoinLines(_)
JoinLines(lines) ==
    IF lines = << >> THEN "" ELSE Head(lines) \o "\n" \o JoinLines(Tail(lines))

\* the two pipes of a started process: the lines written and how many of
\* them each bufio.Scanner has returned
Pipe(o) == [out |-> o.out, err |-> o.err, code |-> o.code, readOut |-> 0, readErr |-> 0]
NoPipe == Pipe(Lines(0, << >>, << >>))
NoBuffers == [out |-> "", err |-> ""]

\* the process as cmd.Wait reports it
Waited(p) == Exited(p.code, JoinLines(p.out), JoinLines(p.err))

\* the duration every message of the model shows
Elapsed == "1s"

\* the Line of the messages and of the lines of output a task sends, by the
\* place that sends it; the glyph of a message is written as a word in
\* brackets
StepLine(kind, text) ==
    CASE kind = "start" -> "Starting execution..."
      [] kind = "initStart" -> "INIT: Initializing Terraform..."
      [] kind = "initOut" -> "INIT: " \o text
      [] kind = "initErr" -> "INIT ERROR: " \o text
      [] kind = "initFailed" -> "INIT: [x] Failed: " \o text
      [] kind = "initDone" -> "INIT: [ok] Terraform initialized successfully"
      [] kind = "error" -> "[x] Error: " \o text
      [] kind = "sso" ->
             "[!]  SSO token error detected. Please refresh your SSO token and try again."
      [] kind = "failed" -> "[x] Execution failed after " \o Elapsed
      [] kind = "completed" -> "[ok] Execution completed successfully in " \o Elapsed

\* streamChan <- output: blocks while the channel is full
StreamSend(output) ==
    /\ Len(streamChan) < StreamCap
    /\ streamChan' = Append(streamChan, output)
    /\ emittedOf' = [emittedOf EXCEPT ![output.ProfileName] = Append(@, output)]

\* a receive that takes the newest value of the channel
ReceiveNewest(chan) ==
    [value |-> chan[Len(chan)], rest |-> SubSeq(chan, 1, Len(chan) - 1)]

\* a receive from a buffered channel: the oldest value
Receive(chan) == [value |-> Head(chan), rest |-> Tail(chan)]

\* strings.TrimRight(s, "\n")
RECURSIVE TrimRightNewlines(_)
TrimRightNewlines(s) ==
    IF s # "" /\ SubSeq(s, Len(s), Len(s)) = "\n"
    THEN TrimRightNewlines(SubSeq(s, 1, Len(s) - 1)) ELSE s

\* printStreamingLine: the lines printed for one value, each behind the
\* profile label (and the ERROR marker of an error value); a blank line
\* prints nothing
printStreamingLine(output) ==
    LET prefix == IF output.IsError THEN output.ProfileName \o " ERROR:"
                  ELSE output.ProfileName \o ":"
        lines == SplitLines(TrimRightNewlines(output.Line))
        Printed[k \in 0..Len(lines)] ==
            IF k = 0 THEN << >>
            ELSE IF TrimSpace(lines[k]) # ""
                 THEN Append(Printed[k - 1], prefix \o " " \o lines[k])
                 ELSE Printed[k - 1]
    IN  Printed[Len(lines)]

\* the channel is closed once wg.Wait of parallelExecution has returned
StreamClosed == passPc \in {"closed", "displayed"}

\* a range loop that ends as soon as the channel is empty
RangeEndsWhenEmpty == streamChan = << >>

\* for output := range streamChan ends: the channel is closed and drained
RangeEnds == StreamClosed /\ streamChan = << >>

\* a wg.Wait() that returns at once: the task does not join its readers
ReadersDrainedNoWait(i) == TRUE

\* a wait for the stdout reader alone
ReadersDrainedStdoutOnly(i) == pipes[i].readOut = Len(pipes[i].out)

\* wg.Wait() of the two readers: both scanners have reached the end
ReadersDrained(i) ==
    /\ pipes[i].readOut = Len(pipes[i].out)
    /\ pipes[i].readErr = Len(pipes[i].err)

\* executeCommandWithStreaming after cmd.Wait: the result and the message
\* that goes with it
finalizeResult(result, err, outputBuffer, stderrBuffer) ==
    LET combinedOutput == outputBuffer \o stderrBuffer
        ssoErr == handleSSOTokenError(err, stderrBuffer)
    IN  IF err # ""
        THEN IF ssoErr # ""
             THEN [result |-> [result EXCEPT !.Error = ssoErr, !.Success = FALSE,
                                             !.Output = combinedOutput],
                   line |-> StepLine("sso", ""), isError |-> TRUE]
             ELSE [result |-> [result EXCEPT !.Error = err, !.Success = FALSE,
                                             !.Output = combinedOutput],
                   line |-> StepLine("failed", ""), isError |-> TRUE]
        ELSE [result |-> [result EXCEPT !.Success = TRUE, !.Output = combinedOutput],
              line |-> StepLine("completed", ""), isError |-> FALSE]

\* what the steps of the stream leave alone
nonStreamVars == << wsVars, execVars, mainVars, buildVars, profileVars, inputVars >>

\* executeForProfileWithStreaming up to its first message: without a
\* workspace the error result is made, else "Starting execution..." is sent
StreamStart(i) ==
    /\ taskPc[i] = "acquired"
    /\ LET profile == passProfiles[i]
           ws == GetWorkspacePath(ProfileSpaces, profile.Name)
       IN  IF ~ws.exists
           THEN /\ taskResult' = [taskResult EXCEPT ![i] =
                       errorResult([NoResult EXCEPT !.ProfileName = profile.Name],
                                   "workspace path not found for profile "
                                       \o profile.Name)]
                /\ taskPc' = [taskPc EXCEPT ![i] = "errorResult"]
                /\ UNCHANGED << streamChan, emittedOf >>
           ELSE /\ StreamSend(StreamingOutput(profile.Name, StepLine("start", ""), FALSE))
                /\ taskResult' = [taskResult EXCEPT ![i] =
                       [NoResult EXCEPT !.ProfileName = profile.Name,
                                        !.WorkingDir = ws.path]]
                /\ taskPc' = [taskPc EXCEPT ![i] = "initMsg"]
    /\ UNCHANGED << passPc, execOpts, passProfiles, semaphore, resultsChan, spawned >>
    /\ UNCHANGED << renderedOf, displayPc, doneSignals, pipes, buffers >>
    /\ UNCHANGED nonStreamVars

\* initInWorkspaceWithStreaming up to cmd.Start: the message is sent and
\* terraform init is started with its two readers
StreamInitStart(i) ==
    /\ taskPc[i] = "initMsg"
    /\ LET profile == passProfiles[i]
           result == taskResult[i]
           cmd == BuildInitCommand(InitBuilder(profile, result.WorkingDir))
       IN  /\ StreamSend(StreamingOutput(profile.Name, StepLine("initStart", ""), FALSE))
           /\ \E startOk \in BOOLEAN :
               IF ~startOk
               THEN /\ taskResult' = [taskResult EXCEPT ![i] =
                           errorResult(result, Wrap("terraform init failed", StartError))]
                    /\ taskPc' = [taskPc EXCEPT ![i] = "errorResult"]
                    /\ UNCHANGED << spawned, pipes >>
               ELSE \E o \in StreamOutcomes("init") :
                    /\ pipes' = [pipes EXCEPT ![i] = Pipe(o)]
                    /\ spawned' = spawned \cup {Spawn(i, profile.Name, "init", cmd)}
                    /\ taskPc' = [taskPc EXCEPT ![i] = "initRead"]
                    /\ UNCHANGED taskResult
    /\ UNCHANGED << passPc, execOpts, passProfiles, semaphore, resultsChan >>
    /\ UNCHANGED << renderedOf, displayPc, doneSignals, buffers >>
    /\ UNCHANGED nonStreamVars

\* the readers of task i read the output of its command, not of its init.
\* A reader is a goroutine of its own: it takes lines until the end of its
\* stream, wherever its task is
ReadsCommand(i) == \E e \in spawned : e.task = i /\ e.kind = "cmd"

\* the stdout reader of the process of task i takes one line: of init it
\* sends the line behind "INIT: ", of the command it writes the line to
\* outputBuffer and sends it
StreamReadStdout(i) ==
    /\ pipes[i].readOut < Len(pipes[i].out)
    /\ LET line == pipes[i].out[pipes[i].readOut + 1]
           name == passProfiles[i].Name
       IN  IF ~ReadsCommand(i)
           THEN /\ StreamSend(StreamingOutput(name, StepLine("initOut", line), FALSE))
                /\ UNCHANGED buffers
           ELSE /\ StreamSend(StreamingOutput(name, line, FALSE))
                /\ buffers' = [buffers EXCEPT ![i].out = @ \o line \o "\n"]
    /\ pipes' = [pipes EXCEPT ![i].readOut = @ + 1]
    /\ UNCHANGED passVars
    /\ UNCHANGED << renderedOf, displayPc, doneSignals >>
    /\ UNCHANGED nonStreamVars

\* the stderr reader of the process of task i takes one line: of init it
\* sends the line behind "INIT ERROR: ", of the command it writes the line
\* to stderrBuffer and sends it; both as errors
StreamReadStderr(i) ==
    /\ pipes[i].readErr < Len(pipes[i].err)
    /\ LET line == pipes[i].err[pipes[i].readErr + 1]
           name == passProfiles[i].Name
       IN  IF ~ReadsCommand(i)
           THEN /\ StreamSend(StreamingOutput(name, StepLine("initErr", line), TRUE))
                /\ UNCHANGED buffers
           ELSE /\ StreamSend(StreamingOutput(name, line, TRUE))
                /\ buffers' = [buffers EXCEPT ![i].err = @ \o line \o "\n"]
    /\ pipes' = [pipes EXCEPT ![i].readErr = @ + 1]
    /\ UNCHANGED passVars
    /\ UNCHANGED << renderedOf, displayPc, doneSignals >>
    /\ UNCHANGED nonStreamVars

\* initInWorkspaceWithStreaming from wg.Wait on, and on success
\* executeForProfileWithStreaming up to the start of the command
StreamInitWait(i) ==
    /\ taskPc[i] = "initRead"
    /\ ReadersDrained(i)
    /\ LET profile == passProfiles[i]
           result == taskResult[i]
           outcome == Waited(pipes[i])
           fail(err) ==
               /\ taskResult' = [taskResult EXCEPT ![i] = errorResult(result, err)]
               /\ taskPc' = [taskPc EXCEPT ![i] = "errorResult"]
               /\ spawned' = ExitedIn(i, outcome)
               /\ UNCHANGED << pipes, buffers >>
       IN  IF outcome.code # 0
           THEN /\ StreamSend(StreamingOutput(profile.Name,
                                  StepLine("initFailed", ExitError(outcome)), TRUE))
                /\ fail(Wrap("terraform init failed", ExitError(outcome)))
           ELSE /\ StreamSend(StreamingOutput(profile.Name, StepLine("initDone", ""), FALSE))
                /\ \E varFileExists \in BOOLEAN, startOk \in BOOLEAN :
                    LET b == BuildCommandFromProfile(profile, result.WorkingDir,
                                                     execOpts, varFileExists)
                    IN  IF b.err # ""
                        THEN fail(Wrap("command build failed", b.err))
                        ELSE IF ~startOk
                        THEN fail(StartError)
                        ELSE \E o \in StreamOutcomes("cmd") :
                             /\ pipes' = [pipes EXCEPT ![i] = Pipe(o)]
                             /\ buffers' = [buffers EXCEPT ![i] = NoBuffers]
                             /\ spawned' = ExitedIn(i, outcome)
                                     \cup {Spawn(i, profile.Name, "cmd", b.cmd)}
                             /\ taskPc' = [taskPc EXCEPT ![i] = "cmdRead"]
                             /\ UNCHANGED taskResult
    /\ UNCHANGED << passPc, execOpts, passProfiles, semaphore, resultsChan >>
    /\ UNCHANGED << renderedOf, displayPc, doneSignals >>
    /\ UNCHANGED nonStreamVars

\* errorResultWithStreaming: the error message is sent and the result ends
\* the goroutine
StreamErrorResult(i) ==
    /\ taskPc[i] = "errorResult"
    /\ StreamSend(StreamingOutput(taskResult[i].ProfileName,
                                  StepLine("error", taskResult[i].Error), TRUE))
    /\ TaskFinish(i, taskResult[i])
    /\ UNCHANGED << passPc, execOpts, passProfiles, spawned >>
    /\ UNCHANGED << renderedOf, displayPc, doneSignals, pipes, buffers >>
    /\ UNCHANGED nonStreamVars

\* executeCommandWithStreaming from wg.Wait on: cmd.Wait, the result, its
\* message, and the result ends the goroutine
StreamCmdWait(i) ==
    /\ taskPc[i] = "cmdRead"
    /\ ReadersDrained(i)
    /\ LET outcome == Waited(pipes[i])
           f == finalizeResult(taskResult[i], ExitError(outcome), buffers[i].out,
                               buffers[i].err)
       IN  /\ StreamSend(StreamingOutput(taskResult[i].ProfileName, f.line, f.isError))
           /\ TaskFinish(i, f.result)
           /\ spawned' = ExitedIn(i, outcome)
    /\ UNCHANGED << passPc, execOpts, passProfiles >>
    /\ UNCHANGED << renderedOf, displayPc, doneSignals, pipes, buffers >>
    /\ UNCHANGED nonStreamVars

\* DisplayStreamingOutput: one round of the loop prints one value
StreamRender ==
    /\ displayPc = "ranging"
    /\ streamChan # << >>
    /\ LET r == Receive(streamChan)
       IN  /\ streamChan' = r.rest
           /\ renderedOf' = [renderedOf EXCEPT ![r.value.ProfileName] =
                  Append(@, [output |-> r.value,
                             printed |-> printStreamingLine(r.value)])]
    /\ UNCHANGED << emittedOf, displayPc, doneSignals, pipes, buffers >>
    /\ UNCHANGED passVars
    /\ UNCHANGED nonStreamVars

\* DisplayStreamingOutput leaves the loop and comes to done <- true
StreamRangeEnds ==
    /\ displayPc = "ranging"
    /\ RangeEnds
    /\ displayPc' = "sending"
    /\ UNCHANGED << streamChan, emittedOf, renderedOf, doneSignals, pipes, buffers >>
    /\ UNCHANGED passVars
    /\ UNCHANGED nonStreamVars

\* done <- true meets <-displayDone of parallelExecution: displayDone has
\* no buffer, so the two happen together
StreamDone ==
    /\ displayPc = "sending"
    /\ passPc = "closed"
    /\ doneSignals' = doneSignals + 1
    /\ displayPc' = "exited"
    /\ passPc' = "displayed"
    /\ UNCHANGED << execOpts, passProfiles, taskPc, taskResult, semaphore,
                    resultsChan, spawned >>
    /\ UNCHANGED << streamChan, emittedOf, renderedOf, pipes, buffers >>
    /\ UNCHANGED nonStreamVars

\* an executor whose workspaces exist for the profiles of the plan or for
\* all but the first, and a plan that approves every profile
InitStream ==
    /\ \E present \in {StreamNames, Tail(StreamNames)} :
        LET r == CreateWorkspacesFrom(1, present, TreesOnly(TreeInitialised), EmptyMap,
                                      0, FilepathJoin(ParentDir, "tf"), OwnID)
        IN  /\ siblings = r.siblings
            /\ ProfileSpaces = r.spaces
            /\ wsCreated = (DOMAIN r.siblings) \ BaseNames
    /\ foreignDirs = TreesOnly(TreeInitialised)
    /\ wmBaseDirPath = FilepathJoin(ParentDir, "tf")
    /\ wmOperationID = OwnID
    /\ wsErr = "none"
    /\ wsPc = "created"
    /\ MaxConcurrency \in {1, DefaultMaxConcurrency}
    /\ AdditionalArgs = << >>
    /\ initLog = << >>
    /\ initErr = ""
    /\ IdlePass /\ IdleStream /\ IdleBuild /\ IdleProfiles /\ IdleInput
    /\ mainPc = "api"
    /\ command = "apply"
    /\ profileArgs = StreamNames
    /\ profiles = [i \in 1..Len(StreamNames) |-> Profile(StreamNames[i])]
    /\ results = << >>
    /\ approvedProfiles = << >>
    /\ promptLog = << >>
    /\ plan = [Command |-> command, Profiles |-> profiles,
               ApprovedProfiles |-> StreamNames]
    /\ realResults = << >>
    /\ dryResultNames = << >>
    /\ lastRead = NoRead

\* ExecutePlan(plan) up to the start of the goroutines: the channels are
\* made, the display goroutine and one goroutine per profile are started
StreamExecutePlan ==
    /\ mainPc = "api"
    /\ LET profs == filterApprovedProfiles(plan.Profiles, plan.ApprovedProfiles)
       IN  /\ parallelExecution(profs, ExecuteOptions(plan.Command, AdditionalArgs))
           /\ streamChan' = << >>
           /\ emittedOf' = [n \in {profs[i].Name : i \in 1..Len(profs)} |-> << >>]
           /\ renderedOf' = [n \in {profs[i].Name : i \in 1..Len(profs)} |-> << >>]
           /\ displayPc' = "ranging"
           /\ doneSignals' = 0
           /\ pipes' = [i \in 1..Len(profs) |-> NoPipe]
           /\ buffers' = [i \in 1..Len(profs) |-> NoBuffers]
    /\ mainPc' = "realRun"
    /\ UNCHANGED << command, profileArgs, profiles, results, approvedProfiles,
                    promptLog, plan, realResults, dryResultNames, lastRead >>
    /\ UNCHANGED << wsVars, execVars, buildVars, profileVars, inputVars >>

NextStream ==
    \/ StreamExecutePlan
    \/ \E i \in DOMAIN taskPc : TaskAcquire(i)
    \/ \E i \in DOMAIN taskPc : StreamStart(i)
    \/ \E i \in DOMAIN taskPc : StreamInitStart(i)
    \/ \E i \in DOMAIN taskPc : StreamReadStdout(i)
    \/ \E i \in DOMAIN taskPc : StreamReadStderr(i)
    \/ \E i \in DOMAIN taskPc : StreamInitWait(i)
    \/ \E i \in DOMAIN taskPc : StreamErrorResult(i)
    \/ \E i \in DOMAIN taskPc : StreamCmdWait(i)
    \/ PassClose
    \/ StreamRender
    \/ StreamRangeEnds
    \/ StreamDone
    \/ ApiExecutePlanReturn

SpecStream == InitStream /\ [][NextStream]_vars

\* the goroutine of task i of executeParallelCommand, without its readers
TaskGoroutine(i) ==
    /\ i \in DOMAIN taskPc
    /\ \/ TaskAcquire(i) \/ StreamStart(i) \/ StreamInitStart(i) \/ StreamInitWait(i)
       \/ StreamErrorResult(i) \/ StreamCmdWait(i)

\* the goroutines that read the stdout and the stderr of the process of task i
StdoutReader(i) == i \in DOMAIN taskPc /\ StreamReadStdout(i)
StderrReader(i) == i \in DOMAIN taskPc /\ StreamReadStderr(i)

\* the goroutine of DisplayStreamingOutput
DisplayGoroutine == StreamRender \/ StreamRangeEnds \/ StreamDone

\* the goroutine of the caller of ExecutePlan
MainGoroutine == StreamExecutePlan \/ PassClose \/ ApiExecutePlanReturn

\* the pass under a fair scheduler: a goroutine that can take a step is not
\* left waiting forever, and a process that was started writes its lines,
\* closes its streams and exits (the readers reach the end of the pipes)
FairSpecStream ==
    /\ InitStream /\ [][NextStream]_vars
    /\ \A i \in 1..Len(StreamNames) :
           /\ WF_vars(TaskGoroutine(i))
           /\ WF_vars(StdoutReader(i))
           /\ WF_vars(StderrReader(i))
    /\ WF_vars(DisplayGoroutine)
    /\ WF_vars(MainGoroutine)

\* -------------------------------------------------------------------------
\* One call of buildTerraformCommand on a builder and ExecutionOptions
\* -------------------------------------------------------------------------
\* the longest list of passthrough arguments
MaxArgs == 2

\* the arguments a caller passes through: those of PlanExecution and of
\* executeCommand, and a flag of terraform apply
PassthroughArgs == {"--detailed-exitcode", "--destroy", "-lock=false", "--auto-approve"}

\* the builders of the call: with and without var file and target
Builders ==
    {[NewCommandBuilder EXCEPT !.WorkingDir = dir, !.VarFile = varFile,
                               !.Targets = targets] :
        dir \in {"", FilepathJoin(ParentDir, ".tf-dev-" \o OwnID)},
        varFile \in {"", Profile("dev").VarFile},
        targets \in {<< >>, << "module.vpc" >>}}

\* a builder and ExecutionOptions, nothing built yet
InitBuild ==
    /\ siblings = TreesOnly(TreeInitialised)
    /\ foreignDirs = siblings
    /\ wmBaseDirPath = FilepathJoin(ParentDir, "tf")
    /\ wmOperationID = OwnID
    /\ ProfileSpaces = EmptyMap
    /\ wsErr = "none"
    /\ wsCreated = {}
    /\ wsPc = "new"
    /\ IdleExec /\ IdleMain /\ IdleStream
    /\ passPc = "idle"
    /\ \E c \in Commands, args \in SeqsOf(PassthroughArgs, 0, MaxArgs), dry \in BOOLEAN :
           execOpts = [Command |-> c, Args |-> args, DryRun |-> dry]
    /\ passProfiles = << >>
    /\ taskPc = << >>
    /\ taskResult = << >>
    /\ semaphore = 0
    /\ resultsChan = << >>
    /\ spawned = {}
    /\ builder \in Builders
    /\ built = NoCmd
    /\ IdleProfiles /\ IdleInput

\* cb.buildTerraformCommand(execOpts)
BuildCommand ==
    /\ built = NoCmd
    /\ built' = buildTerraformCommand(builder, execOpts)
    /\ UNCHANGED << builder, wsVars, execVars, passVars, mainVars, streamVars,
                    profileVars, inputVars >>

NextBuild == BuildCommand

SpecBuild == InitBuild /\ [][NextBuild]_vars

\* -------------------------------------------------------------------------
\* DetectProfiles, ListProfiles and GetProfile on a directory and a Config
\* -------------------------------------------------------------------------
\* the most profiles of a Config written by hand
MaxGiven == 2

\* strings.TrimSuffix(name, extension)
TrimSuffix(name, extension) ==
    IF HasSuffix(name, extension)
    THEN SubSeq(name, 1, Len(name) - Len(extension))
    ELSE name

\* utils.CheckDirExists(name) in the directory of entries: the entry is
\* there and is a directory; a plain file of that name is "not a directory"
CheckDirExists(entries, name) ==
    \E e \in entries : e.name = name /\ e.kind = "dir"

\* utils.ResolveIfSymlink(path): the FileInfo in hand after it. A link is
\* resolved and the FileInfo is that of its target, whose Name() is the base
\* name of the resolved path; a link that does not resolve is an error. The
\* links of the model point at regular files.
ResolveIfSymlink(e) ==
    IF e.kind = "link"
    THEN [err |-> e.target = "", Name |-> FilepathBase(e.target), IsDir |-> FALSE]
    ELSE [err |-> FALSE, Name |-> e.name, IsDir |-> e.kind = "dir"]

\* the names filepath.Walk hands to the callback of ScanFilesWithExtension
\* and the callback keeps: Walk descends into the directories (never
\* through a link), the callback skips what does not resolve and what is a
\* directory, and keeps actualInfo.Name() when it ends in the extension
RECURSIVE WalkedNames(_, _)
WalkedNames(entries, extension) ==
    UNION { LET actualInfo == ResolveIfSymlink(e)
            IN  IF actualInfo.err THEN {}
                ELSE IF actualInfo.IsDir THEN WalkedNames(e.sub, extension)
                ELSE IF HasSuffix(actualInfo.Name, extension)
                     THEN {actualInfo.Name}
                     ELSE {}
            : e \in entries }

\* utils.ScanFilesWithExtension(dir, extension): the map from stem to file
\* name; a stem found twice keeps one entry
ScanFilesWithExtension(entries, extension) ==
    LET names == WalkedNames(entries, extension)
        stems == {TrimSuffix(n, extension) : n \in names}
    IN  [stem \in stems |-> stem \o extension]

\* the entries of the directory called name
EntriesOf(entries, name) ==
    (CHOOSE e \in entries : e.name = name).sub

\* DetectProfiles(): the Configs it can return in the directory of entries.
\* The profiles are appended while ranging over the map of backend files,
\* whose order Go leaves open: every order of the matching stems is a
\* possible result.
DetectProfiles(entries) ==
    IF ~CheckDirExists(entries, "backend") \/ ~CheckDirExists(entries, "vars")
    THEN {NoConfig}
    ELSE LET backendFiles ==
                 ScanFilesWithExtension(EntriesOf(entries, "backend"), ".tfbackend")
             varFiles ==
                 ScanFilesWithExtension(EntriesOf(entries, "vars"), ".tfvars")
             stems == DOMAIN backendFiles \cap DOMAIN varFiles
         IN  {[Profiles |-> [i \in 1..Cardinality(stems) |-> Profile(order[i])]] :
                 order \in {f \in [1..Cardinality(stems) -> stems] :
                               \A i, j \in DOMAIN f : f[i] = f[j] => i = j}}

\* config.ListProfiles()
ListProfiles(config) ==
    [i \in 1..Len(config.Profiles) |-> config.Profiles[i].Name]

\* what the backend directory can hold: pairs, a README, an older
\* configuration in a subdirectory, a configuration shared through a link
BackendDirs ==
    { {File("dev.tfbackend"), File("prod.tfbackend")},
      {File("dev.tfbackend"), File("README.md"),
       Dir("old", {File("qa.tfbackend")})},
      {Link("dev.tfbackend", "../shared/common.tfbackend"),
       File("prod.tfbackend")},
      {} }

\* what the vars directory can hold; a link that no longer resolves too
VarsDirs ==
    { {File("dev.tfvars"), File("prod.tfvars")},
      {File("dev.tfvars"), File("qa.tfvars"), File("common.tfvars")},
      {File("prod.tfvars"), Link("stale.tfvars", "")} }

\* the directories tapper can be started in
WorkDirs ==
    { {File("main.tf")} \cup b \cup v :
        b \in {{}, {File("backend")}} \cup {{Dir("backend", d)} : d \in BackendDirs},
        v \in {{}} \cup {{Dir("vars", d)} : d \in VarsDirs} }

\* the Configs a caller writes by hand, as the tests do; names can repeat
Configs ==
    {[Profiles |-> ps] :
        ps \in SeqsOf({Profile("dev"), Profile("prod"),
                       [Profile("dev") EXCEPT !.VarFile = "other.tfvars"]},
                      0, MaxGiven)}

\* the names asked of GetProfile
LookupNames == {"dev", "prod", "staging", ""}

InitProfiles ==
    /\ siblings = TreesOnly(TreeInitialised)
    /\ foreignDirs = siblings
    /\ wmBaseDirPath = FilepathJoin(ParentDir, "tf")
    /\ wmOperationID = OwnID
    /\ ProfileSpaces = EmptyMap
    /\ wsErr = "none"
    /\ wsCreated = {}
    /\ wsPc = "new"
    /\ IdleExec /\ IdleMain /\ IdleStream /\ IdlePass /\ IdleBuild /\ IdleInput
    /\ workDir \in WorkDirs
    /\ cfg = NoConfig
    /\ cfgPc = "none"
    /\ lookup = NoLookup

\* config, err := DetectProfiles() in workDir
DetectProfilesCall ==
    /\ cfgPc = "none"
    /\ cfg' \in DetectProfiles(workDir)
    /\ cfgPc' = "detected"
    /\ UNCHANGED << workDir, lookup, wsVars, execVars, passVars, mainVars,
                    streamVars, buildVars, inputVars >>

\* config := &Config{Profiles: []Profile{...}}
GivenConfig ==
    /\ cfgPc = "none"
    /\ cfg' \in Configs
    /\ cfgPc' = "given"
    /\ UNCHANGED << workDir, lookup, wsVars, execVars, passVars, mainVars,
                    streamVars, buildVars, inputVars >>

\* names := config.ListProfiles(); profile, found := config.GetProfile(name)
LookupProfile ==
    /\ cfgPc \in {"detected", "given"}
    /\ lookup = NoLookup
    /\ \E name \in LookupNames :
           lookup' = [asked |-> TRUE, name |-> name, names |-> ListProfiles(cfg),
                      found |-> GetProfile(cfg, name).found,
                      profile |-> GetProfile(cfg, name).profile]
    /\ UNCHANGED << workDir, cfg, cfgPc, wsVars, execVars, passVars, mainVars,
                    streamVars, buildVars, inputVars >>

NextProfiles == DetectProfilesCall \/ GivenConfig \/ LookupProfile

SpecProfiles == InitProfiles /\ [][NextProfiles]_vars

\* -------------------------------------------------------------------------
\* Two invocations in one source tree: the manager the model follows and a
\* concurrent one, whose identifier rand.Read draws as freely as the first
\* -------------------------------------------------------------------------
\* the last n characters of a name
LastChars(s, n) == SubSeq(s, Len(s) - n + 1, Len(s))

\* CreateWorkspaces of the concurrent invocation for one profile: MkdirAll
\* takes an existing directory for made, symlink fails on an existing link
ConcurrentCreates ==
    /\ Cardinality(ForeignWorkspaces) < MaxOthers
    /\ \E p \in ProfileNames, id \in OperationIDs :
        LET name == WorkspaceName(FilepathBase(wmBaseDirPath), p, id)
            r == CreateWorkspacesFrom(1, << p >>, siblings, EmptyMap, 0,
                                      wmBaseDirPath, id)
        IN  /\ siblings' = r.siblings
            /\ foreignDirs' = (name :> r.siblings[name]) @@ foreignDirs
    /\ UNCHANGED << wmBaseDirPath, wmOperationID, ProfileSpaces, wsErr, wsCreated, wsPc >>
    /\ UNCHANGED << execVars, passVars, mainVars >>
    /\ UNCHANGED << streamVars, buildVars, profileVars, inputVars >>

\* Cleanup of the concurrent invocation, with the identifier its workspaces
\* carry
ConcurrentCleanup ==
    /\ \E n \in ForeignWorkspaces :
        LET id == LastChars(n, IdLen)
            matches == CleanupMatches(siblings, wmBaseDirPath, id)
        IN  /\ siblings' = RemoveAll(siblings, matches)
            /\ foreignDirs' = RemoveAll(foreignDirs, matches)
    /\ UNCHANGED << wmBaseDirPath, wmOperationID, ProfileSpaces, wsErr, wsCreated, wsPc >>
    /\ UNCHANGED << execVars, passVars, mainVars >>
    /\ UNCHANGED << streamVars, buildVars, profileVars, inputVars >>

NextConcurrent ==
    WsCreateWorkspaces \/ WsCleanup \/ ConcurrentCreates \/ ConcurrentCleanup

SpecConcurrent == InitWs /\ [][NextConcurrent]_vars

\* -------------------------------------------------------------------------
\* The prompts of a review and the bytes of standard input
\* -------------------------------------------------------------------------
\* the most lines the operator gives before the review
MaxLines == 3
\* the size of the buffer of a bufio.Reader (bufio.NewReader: 4096 bytes)
BufSize == 4

\* the lines the operator can give
TypedLines == {"y\n", "n\n", "yes\n", "no\n"}

\* the lines of the input, one behind the other, as the bytes of the stream
RECURSIVE JoinTyped(_)
JoinTyped(ls) == IF ls = << >> THEN "" ELSE Head(ls) \o JoinTyped(Tail(ls))

\* the position of the first "\n" of s, 0 when it has none
IndexNewline(s) ==
    IF \E k \in 1..Len(s) : SubSeq(s, k, k) = "\n"
    THEN CHOOSE k \in 1..Len(s) :
             /\ SubSeq(s, k, k) = "\n"
             /\ \A j \in 1..(k - 1) : SubSeq(s, j, j) # "\n"
    ELSE 0

Min(a, b) == IF a < b THEN a ELSE b

\* os.Stdin.Read into a buffer of n bytes, the input waiting: a terminal in
\* line mode hands over one line at most, a pipe or a file all the bytes
\* that wait, up to n
osRead(pending, kind, n) ==
    IF kind = "tty" /\ IndexNewline(pending) # 0
    THEN Min(n, IndexNewline(pending))
    ELSE Min(n, Len(pending))

\* bufio.NewReader(os.Stdin).ReadString('\n') on a new reader: the buffer is
\* filled by one Read after the other until it holds a "\n"; the line up to
\* it is returned, the bytes read behind it stay in the buffer of the reader
\* and are lost with it; at the end of the input the error is returned with
\* what was read
RECURSIVE ReadString(_, _, _)
ReadString(pending, kind, acc) ==
    LET n == osRead(pending, kind, BufSize)
        chunk == SubSeq(pending, 1, n)
        rest == SubSeq(pending, n + 1, Len(pending))
        p == IndexNewline(chunk)
    IN  IF n = 0
        THEN [read |-> [err |-> TRUE, line |-> ""], rest |-> pending]
        ELSE IF p # 0
        THEN [read |-> [err |-> FALSE, line |-> acc \o SubSeq(chunk, 1, p)],
              rest |-> rest]
        ELSE ReadString(rest, kind, acc \o chunk)

\* the read lands on a terminal where nothing is typed: it waits
WaitsForInput == stdinKind = "tty" /\ stdin = ""

\* the review of one or two results starts with the answers of the operator
\* already on standard input, a terminal or a pipe whose writer is done
InitInput ==
    /\ siblings = TreesOnly(TreeInitialised)
    /\ foreignDirs = siblings
    /\ wmBaseDirPath = FilepathJoin(ParentDir, "tf")
    /\ wmOperationID = OwnID
    /\ ProfileSpaces = EmptyMap
    /\ wsErr = "none"
    /\ wsCreated = {}
    /\ wsPc = "new"
    /\ IdleExec /\ IdlePass /\ IdleStream /\ IdleBuild /\ IdleProfiles
    /\ mainPc = "review"
    /\ command = "apply"
    /\ \E n \in 1..2 :
        /\ profileArgs = SubSeq(<< "dev", "prod" >>, 1, n)
        /\ profiles = [i \in 1..n |-> Profile(profileArgs[i])]
        /\ results = [i \in 1..n |->
                          [NoResult EXCEPT !.ProfileName = profileArgs[i],
                                           !.Success = TRUE]]
        /\ dryResultNames = profileArgs
    /\ approvedProfiles = << >>
    /\ promptLog = << >>
    /\ plan = [Command |-> "", Profiles |-> << >>, ApprovedProfiles |-> << >>]
    /\ realResults = << >>
    /\ lastRead = NoRead
    /\ stdinKind \in {"tty", "pipe"}
    /\ \E len \in 0..MaxLines : typed \in [1..len -> TypedLines]
    /\ stdin = JoinTyped(typed)

\* ReviewAndApproveResults: the prompt for the next result; getYesNoResponse
\* reads its answer from standard input through a reader of its own
InputReviewPrompt ==
    /\ mainPc = "review"
    /\ Len(promptLog) < Len(results)
    /\ ~WaitsForInput
    /\ LET result == results[Len(promptLog) + 1]
           r == ReadString(stdin, stdinKind, "")
           approved == getYesNoResponse(r.read)
       IN  /\ promptLog' = Append(promptLog, Prompt("profile", result.ProfileName, approved))
           /\ approvedProfiles' = IF approved
                                  THEN Append(approvedProfiles, result.ProfileName)
                                  ELSE approvedProfiles
           /\ lastRead' = r.read
           /\ stdin' = r.rest
    /\ UNCHANGED << mainPc, command, profileArgs, profiles, results, plan, realResults,
                    dryResultNames >>
    /\ UNCHANGED << stdinKind, typed >>
    /\ UNCHANGED << wsVars, execVars, passVars >>
    /\ UNCHANGED << streamVars, buildVars, profileVars >>

\* ReviewAndApproveResults after its loop: the batch confirmation, read the
\* same way, when it is asked
InputReviewFinish ==
    /\ mainPc = "review"
    /\ Len(promptLog) = Len(results)
    /\ IF AsksBatch(results, approvedProfiles)
       THEN /\ ~WaitsForInput
            /\ LET r == ReadString(stdin, stdinKind, "")
                   yes == getYesNoResponse(r.read)
               IN  /\ promptLog' = Append(promptLog, Prompt("batch", "", yes))
                   /\ plan' = [Command |-> command, Profiles |-> profiles,
                               ApprovedProfiles |->
                                   ConfirmBatchExecution(approvedProfiles, yes)]
                   /\ lastRead' = r.read
                   /\ stdin' = r.rest
       ELSE /\ plan' = [Command |-> command, Profiles |-> profiles,
                        ApprovedProfiles |-> approvedProfiles]
            /\ UNCHANGED << promptLog, lastRead, stdin >>
    /\ results' = << >>
    /\ approvedProfiles' = << >>
    /\ mainPc' = "planned"
    /\ UNCHANGED << command, profileArgs, profiles, realResults, dryResultNames >>
    /\ UNCHANGED << stdinKind, typed >>
    /\ UNCHANGED << wsVars, execVars, passVars >>
    /\ UNCHANGED << streamVars, buildVars, profileVars >>

NextInput == InputReviewPrompt \/ InputReviewFinish

SpecInput == InitInput /\ [][NextInput]_vars

\* -------------------------------------------------------------------------
\* The claims
\* -------------------------------------------------------------------------
\* the real pass (ExecutePlan) has been started
RealPass == passPc # "idle" /\ ~execOpts.DryRun

\* PlanExecution has returned its plan to executeCommand
PlanReturned == mainPc \in {"planned", "realRun", "done"}

\* the positions of the prompts of a kind in promptLog
ProfilePrompts == {k \in DOMAIN promptLog : promptLog[k].kind = "profile"}
BatchPrompts == {k \in DOMAIN promptLog : promptLog[k].kind = "batch"}

\* the names the operator approved at their prompts, in the order of the
\* prompts
RECURSIVE ApprovedUpTo(_)
ApprovedUpTo(k) ==
    IF k = 0 THEN << >>
    ELSE IF promptLog[k].kind = "profile" /\ promptLog[k].answer
    THEN Append(ApprovedUpTo(k - 1), promptLog[k].name)
    ELSE ApprovedUpTo(k - 1)
ApprovedInOrder == ApprovedUpTo(Len(promptLog))

\* the tasks of the running pass for a profile name
TasksFor(n) == {i \in DOMAIN passProfiles : passProfiles[i].Name = n}

\* C1: in the real pass a process is spawned for a profile only if the
\* dry-run pass produced a result for that profile, the operator answered
\* yes to the prompt of that profile and, when more than one result was
\* reviewed, yes to the batch confirmation too.
C1_RealSpawnOnlyApproved ==
    RealPass =>
        \A e \in spawned :
            /\ e.profile \in Range(dryResultNames)
            /\ \E k \in ProfilePrompts :
                   promptLog[k].name = e.profile /\ promptLog[k].answer
            /\ Len(dryResultNames) > 1 =>
                   \E k \in BatchPrompts : promptLog[k].answer

\* apply runs with --auto-approve for prod after the operator rejected dev,
\* approved prod and confirmed the batch
C1_Witness ==
    /\ RealPass
    /\ command = "apply"
    /\ dryResultNames = << "dev", "prod" >>
    /\ \E k \in ProfilePrompts : promptLog[k].name = "dev" /\ ~promptLog[k].answer
    /\ \E e \in spawned :
           /\ e.kind = "cmd" /\ e.profile = "prod"
           /\ "--auto-approve" \in Range(e.args)

\* C2: the approved names of the plan PlanExecution returns are names of
\* profiles of the plan, and with no approved name the real pass is never
\* started and no task of it runs.
C2_ApprovedSubsetAndEmptyRunsNothing ==
    PlanReturned =>
        /\ Range(plan.ApprovedProfiles) \subseteq Range(NamesOf(plan.Profiles))
        /\ Len(plan.ApprovedProfiles) = 0 =>
               /\ ~RealPass
               /\ realResults = << >>
               /\ \A e \in spawned : "--auto-approve" \notin Range(e.args)

\* the operator rejected the single profile reviewed and the invocation
\* has ended
C2_Witness ==
    /\ mainPc = "done"
    /\ Len(plan.Profiles) = 1
    /\ Len(promptLog) = 1 /\ ~promptLog[1].answer
    /\ plan.ApprovedProfiles = << >>

\* C3: the batch confirmation is asked once when at least two results were
\* reviewed and at least one approved, never otherwise, and only after the
\* prompt of the last result.
C3_BatchPromptOnce ==
    /\ Cardinality(BatchPrompts) <= 1
    /\ \A k \in BatchPrompts :
           k = Len(promptLog) /\ Cardinality(ProfilePrompts) = Len(dryResultNames)
    /\ PlanReturned =>
           (Cardinality(BatchPrompts) = 1
               <=> (Len(dryResultNames) >= 2 /\ Len(ApprovedInOrder) >= 1))

\* two results reviewed, the first rejected, the second approved, and the
\* batch confirmation asked after both
C3_Witness ==
    /\ PlanReturned
    /\ Len(promptLog) = 3
    /\ ~promptLog[1].answer /\ promptLog[2].answer
    /\ promptLog[3].kind = "batch"

\* C4: when the batch confirmation is asked, a no leaves no approved name
\* and a yes leaves the names approved at their prompts, in the order of the
\* approvals.
C4_BatchAnswerDecides ==
    PlanReturned /\ BatchPrompts # {} =>
        plan.ApprovedProfiles =
            IF promptLog[Len(promptLog)].answer THEN ApprovedInOrder ELSE << >>

\* prod then dev were approved, in the order of their results, and the
\* batch confirmed
C4_Witness ==
    /\ mainPc = "planned"
    /\ NamesOf(plan.Profiles) = << "dev", "prod" >>
    /\ plan.ApprovedProfiles = << "prod", "dev" >>
    /\ promptLog[Len(promptLog)] = Prompt("batch", "", TRUE)

\* C5: the real pass runs one task for every approved name and none for
\* any other name, and returns as many results as there are approved names.
C5_OneTaskPerApproved ==
    RealPass =>
        /\ \A n \in ArgNames :
               Cardinality(TasksFor(n)) =
                   IF n \in Range(plan.ApprovedProfiles) THEN 1 ELSE 0
        /\ Len(passProfiles) = Len(plan.ApprovedProfiles)
        /\ mainPc = "done" =>
               /\ Len(realResults) = Len(plan.ApprovedProfiles)
               /\ Range(ResultNames(realResults)) = Range(plan.ApprovedProfiles)

\* dev and prod were requested, dev only approved and the batch confirmed:
\* the real pass has returned the one result of dev
C5_Witness ==
    /\ mainPc = "done"
    /\ NamesOf(plan.Profiles) = << "dev", "prod" >>
    /\ plan.ApprovedProfiles = << "dev" >>
    /\ ResultNames(realResults) = << "dev" >>

\* the processes of the pass that have not exited
RunningProcesses == {e \in spawned : e.outcome = Running}

\* C6: with more profiles in the pass than MaxConcurrency, at most
\* MaxConcurrency processes (terraform init or the command) started by the
\* tasks of the pass are running, in every interleaving.
C6_AtMostCapRunning ==
    Len(passProfiles) > MaxConcurrency =>
        Cardinality(RunningProcesses) <= MaxConcurrency

\* the cap is reached with an init and a command running while a task waits
\* for the semaphore
C6_Witness ==
    /\ Len(passProfiles) > MaxConcurrency
    /\ MaxConcurrency = 2
    /\ Cardinality(RunningProcesses) = MaxConcurrency
    /\ \E e \in RunningProcesses : e.kind = "init"
    /\ \E e \in RunningProcesses : e.kind = "cmd"
    /\ \E i \in DOMAIN taskPc : taskPc[i] = "queued"

\* the results with the name of task i in a list of results
ResultsOf(rs, i) == {k \in DOMAIN rs : rs[k].ProfileName = passProfiles[i].Name}

\* C7: every task of a pass sends one result, whatever its outcome, so
\* parallelExecution returns one result for every profile it was given, with
\* the name of that profile.
C7_OneResultPerTask ==
    /\ \A i \in DOMAIN taskPc :
           Cardinality(ResultsOf(resultsChan, i)) =
               IF taskPc[i] = "done" THEN 1 ELSE 0
    /\ Len(resultsChan) = Cardinality({i \in DOMAIN taskPc : taskPc[i] = "done"})
    /\ mainPc = "done" =>
           /\ Len(realResults) = Len(passProfiles)
           /\ \A i \in DOMAIN passProfiles :
                  Cardinality(ResultsOf(realResults, i)) = 1

\* the pass has returned the results of a task without workspace, of a task
\* whose init failed and of a task that succeeded
C7_Witness ==
    /\ mainPc = "done"
    /\ \E k \in DOMAIN realResults :
           HasPrefix(realResults[k].Error, "workspace path not found")
    /\ \E k \in DOMAIN realResults :
           HasPrefix(realResults[k].Error, "terraform init failed")
    /\ \E k \in DOMAIN realResults : realResults[k].Success

\* Executor.Init has returned
InitReturned == mainPc \notin {"start", "plan"}

\* the processes Executor.Init has run, by program
InitRuns(prog) == {k \in DOMAIN initLog : initLog[k].prog = prog}

\* a terraform init ended with an error and the expiry signature on stderr
FailedExpired(outcome) ==
    outcome.code # 0 /\ Contains(outcome.stderr, SSOTokenExpiredError)

\* the first init of Executor.Init failed with the expiry signature
FirstInitExpired == Len(initLog) >= 1 /\ FailedExpired(initLog[1].outcome)

\* RefreshAWSSSOFromBackendConfig has been called and has failed
RefreshFailed == HasPrefix(initErr, "error refreshing AWS SSO token")

\* an error that names the credentials: "SSO token error: ..." or
\* "error refreshing AWS SSO token: ..."
IsCredentialError(err) == Contains(err, "SSO")

\* C8 as stated: after an init that failed with the expiry signature the
\* refresh runs once and (read for a refresh that succeeds) init is run
\* once more; when that init fails with the signature too there is no third
\* init and the error returned is a credential error.
C8_Original ==
    InitReturned /\ FirstInitExpired =>
        /\ Cardinality(InitRuns("aws")) <= 1
        /\ ~RefreshFailed =>
               /\ Cardinality(InitRuns("aws")) = 1
               /\ Cardinality(InitRuns("terraform")) = 2
               /\ FailedExpired(initLog[Len(initLog)].outcome) =>
                      IsCredentialError(initErr)

\* C8 amended: after an init of Executor.Init that failed with the expiry
\* signature the refresh is called once; when the refresh fails its error
\* is returned and init is not run again; when it succeeds init is run once
\* more, never a third time, and the error of that second init is returned
\* as it is ("exit status 1"), not as a credential error. Without the
\* signature there is neither refresh nor second init.
C8_RetryOnceAfterRefresh ==
    InitReturned =>
        IF FirstInitExpired
        THEN IF RefreshFailed
             THEN /\ Cardinality(InitRuns("terraform")) = 1
                  /\ Cardinality(InitRuns("aws")) <= 1
                  /\ \A k \in InitRuns("aws") : initLog[k].outcome.code # 0
             ELSE /\ Len(initLog) = 3
                  /\ initLog[2].prog = "aws" /\ initLog[2].outcome.code = 0
                  /\ initLog[3].prog = "terraform"
                  /\ initLog[3].args = initLog[1].args
                  /\ initErr = ExitError(initLog[3].outcome)
                  /\ ~IsCredentialError(initErr)
        ELSE /\ Len(initLog) <= 1
             /\ InitRuns("aws") = {}

\* the second init failed with the expiry signature after a refresh that
\* succeeded, and the invocation ended with its plain error
C8_Witness ==
    /\ mainPc = "exit1"
    /\ Len(initLog) = 3
    /\ FirstInitExpired
    /\ FailedExpired(initLog[3].outcome)
    /\ initErr = "exit status 1"

\* the init processes of task i that have ended with an error
FailedInits(i) ==
    {e \in spawned : e.task = i /\ e.kind = "init" /\ e.outcome.code > 0}

\* C9 as stated: when the init of a task in its workspace has failed with
\* the expiry signature, the task does not end before the refresher (aws
\* sso login), which the second init follows, has been invoked.
C9_Original ==
    \A i \in DOMAIN taskPc :
        (taskPc[i] = "done"
            /\ \E e \in FailedInits(i) : FailedExpired(e.outcome)) =>
            \E e \in spawned : e.prog = "aws"

\* C9 amended: when the init of a task in its workspace fails, with the
\* expiry signature or without it, the refresher is not invoked and init is
\* not run again: the task ends with the error "terraform init failed: ..."
\* in its result and runs no command; the other tasks are not ended by it.
C9_TaskInitFailureIsFinal ==
    /\ \A e \in spawned : e.prog = "terraform"
    /\ \A i \in DOMAIN taskPc :
           FailedInits(i) # {} =>
               /\ taskPc[i] = "done"
               /\ Cardinality({e \in spawned : e.task = i}) = 1
               /\ taskResult[i].Error = "terraform init failed: exit status 1"
               /\ ~taskResult[i].Success
               /\ taskResult[i].ProfileName = passProfiles[i].Name

\* the init of the task of dev failed with the expiry signature and the
\* task has ended, while the task of prod runs its command
C9_Witness ==
    \E i, j \in DOMAIN taskPc :
        /\ taskPc[i] = "done"
        /\ \E e \in FailedInits(i) : FailedExpired(e.outcome)
        /\ taskPc[j] = "cmd"
        /\ \E e \in RunningProcesses : e.task = j /\ e.kind = "cmd"

\* C10: after CreateWorkspaces and Cleanup no directory with the operation
\* identifier of this manager is left in the parent directory, and the
\* source trees and the workspaces of other operations are as they were.
C10_CleanupRemovesOwnOnly ==
    /\ wsPc \in {"cleaned", "cleanedTwice"} =>
           \A n \in DOMAIN siblings : ~HasSuffix(n, wmOperationID)
    /\ \A n \in DOMAIN foreignDirs :
           n \in DOMAIN siblings /\ siblings[n] = foreignDirs[n]

\* two workspaces were created and removed beside a workspace of another
\* operation in the same source tree
C10_Witness ==
    /\ wsPc = "cleaned"
    /\ Cardinality(wsCreated) = 2
    /\ \E n \in ForeignWorkspaces :
           HasPrefix(n, "." \o FilepathBase(wmBaseDirPath) \o "-")

\* C11: a second Cleanup on the same WorkspaceManager, after a Cleanup that
\* returned no error, removes nothing, leaves the map empty and returns no
\* error. (A step from "cleaned" that leaves foreignDirs alone is a Cleanup.)
C11_SecondCleanupIsNoOp ==
    [][(wsPc = "cleaned" /\ foreignDirs' = foreignDirs) =>
           /\ siblings' = siblings
           /\ ProfileSpaces = EmptyMap /\ ProfileSpaces' = EmptyMap
           /\ wsErr' = "none"]_vars

\* Cleanup has run twice after two workspaces were created, and a workspace
\* of another operation in the same source tree is still there
C11_Witness ==
    /\ wsPc = "cleanedTwice"
    /\ Cardinality(wsCreated) = 2
    /\ ProfileSpaces = EmptyMap
    /\ \E n \in ForeignWorkspaces :
           HasPrefix(n, "." \o FilepathBase(wmBaseDirPath) \o "-")

\* the invocation has ended: executeCommand has returned or os.Exit(1) ran
Ended == mainPc \in {"done", "exit1"}

\* the directories of the parent that carry the identifier of this operation
OwnDirs == {n \in DOMAIN siblings : HasSuffix(n, "-" \o wmOperationID)}

\* C12 as stated: when the invocation ends after it has created a workspace
\* directory, the teardown has been executed and (unless a removal itself
\* failed) no workspace directory of the operation is left.
C12_Original ==
    (Ended /\ wsCreated # {}) =>
        \/ wsErr = "remove"
        \/ wsPc = "cleaned" /\ OwnDirs = {}

\* CreateWorkspaces has failed
AllocFailed == wsErr \in {"mkdir", "symlink"}

\* C13 as stated: when the allocation of a workspace fails the invocation
\* fails and has started no external process, then or later.
C13_Original ==
    AllocFailed => mainPc = "exit1" /\ spawned = {} /\ initLog = << >>

\* C13 amended: when the allocation of a workspace fails the invocation
\* fails; the processes of Executor.Init for the first profile (terraform
\* init in the source directory and, after an expiry signature, aws sso
\* login and a second init) have run before the allocation, and no task of a
\* pass starts a process, then or later.
C13_AllocationFailureStartsNoTask ==
    AllocFailed =>
        /\ mainPc = "exit1"
        /\ passPc = "idle" /\ spawned = {}
        /\ Len(initLog) >= 1 /\ initErr = ""
        /\ initLog[1].prog = "terraform" /\ initLog[1].dir = ""

\* the allocation failed after a workspace directory was made, and
\* Executor.Init had run init, the refresh and init again
C13_Witness ==
    /\ AllocFailed
    /\ wsCreated # {}
    /\ Len(initLog) = 3
    /\ mainPc = "exit1"

\* the task has ended because the var file of its profile was not found
VarFileMissing(i) ==
    HasPrefix(taskResult[i].Error, "command build failed: var file not found: ")

\* the processes a task has started in the pass
SpawnedBy(i) == {e \in spawned : e.task = i}

CommandSucceeded(i) ==
    \E e \in SpawnedBy(i) : e.kind = "cmd" /\ e.outcome.code = 0

\* C15 as stated: no failure that concerns one profile keeps the other
\* selected profiles from running: when the invocation ends without a
\* failed allocation, every selected profile other than the first (the one
\* whose failure Executor.Init can report) has a result of the dry-run pass.
C15_Original ==
    (Ended /\ ~AllocFailed) =>
        \A i \in 2..Len(profiles) :
            profiles[i].Name # profiles[1].Name =>
                profiles[i].Name \in Range(dryResultNames)

\* C15 amended: inside a pass a failure of a task (its init, command build,
\* spawn or exit status) is recorded on the result of that task only and
\* every task of the pass still produces its result: a task succeeds exactly
\* when its own command exited with status 0. A failure of Executor.Init for
\* the first selected profile, before the dry-run pass, ends the whole
\* invocation: no task runs for any profile.
C15_TaskFailuresAreIsolated ==
    /\ initErr # "" => mainPc = "exit1" /\ passPc = "idle" /\ dryResultNames = << >>
    /\ \A i \in DOMAIN taskPc :
           taskPc[i] = "done" =>
               /\ taskResult[i].Success <=> CommandSucceeded(i)
               /\ taskResult[i].Error = "" <=> CommandSucceeded(i)
               /\ taskResult[i].ProfileName = passProfiles[i].Name
    /\ passPc \in {"closed", "displayed"} =>
           /\ Len(resultsChan) = Len(passProfiles)
           /\ \A i \in DOMAIN taskPc : taskResult[i] \in Range(resultsChan)
    /\ mainPc \in {"review", "planned", "realRun", "done"} =>
           Range(dryResultNames) = Range(NamesOf(profiles))

\* in one pass the init of a task failed and the command of another
\* task, which ended later, succeeded
C15_Witness ==
    /\ passPc = "displayed"
    /\ Len(resultsChan) = 2
    /\ HasPrefix(resultsChan[1].Error, "terraform init failed")
    /\ resultsChan[2].Success

\* the values of profile p that wait in streamChan, oldest first
InChan(p) == SelectSeq(streamChan, LAMBDA o : o.ProfileName = p)

\* the values of profile p that have been handed to printStreamingLine
RenderedOutputs(p) == [k \in 1..Len(renderedOf[p]) |-> renderedOf[p][k].output]

\* C16: the values of one profile are rendered in the order in which they
\* were sent on streamChan, whatever values of other profiles lie between
\* them: at every moment the values rendered for a profile, followed by
\* its values still in the channel, are exactly the values sent for it, so
\* none is dropped and none is rendered twice.
C16_RenderedInEmissionOrder ==
    \A p \in DOMAIN emittedOf : RenderedOutputs(p) \o InChan(p) = emittedOf[p]

\* values of two profiles have been rendered, more than one of the same
\* profile, while the full channel holds values of both
C16_Witness ==
    \E p \in DOMAIN renderedOf, q \in DOMAIN renderedOf :
        /\ p # q
        /\ Len(renderedOf[p]) >= 2
        /\ Len(renderedOf[q]) >= 1
        /\ Len(streamChan) = StreamCap
        /\ InChan(p) # << >>
        /\ InChan(q) # << >>

\* C17: DisplayStreamingOutput sends on displayDone once in a pass, only
\* when streamChan is closed and every value sent on it has been rendered,
\* and parallelExecution returns only after it has received that value.
C17_DoneOnceAfterCloseAndRender ==
    /\ doneSignals <= 1
    /\ doneSignals = 1 =>
           /\ StreamClosed
           /\ streamChan = << >>
           /\ \A p \in DOMAIN emittedOf : RenderedOutputs(p) = emittedOf[p]
    /\ displayPc = "exited" <=> doneSignals = 1
    /\ (displayPc # "none" /\ (passPc = "displayed" \/ mainPc = "done")) =>
           doneSignals = 1

\* the pass has returned after the one done signal, with the values of two
\* profiles rendered
C17_Witness ==
    /\ mainPc = "done"
    /\ doneSignals = 1
    /\ \E p \in DOMAIN renderedOf, q \in DOMAIN renderedOf :
           p # q /\ Len(renderedOf[p]) >= 5 /\ Len(renderedOf[q]) >= 1

\* the message that ends the stream of a task: of executeCommandWithStreaming
\* (handleSSOTokenError included) or of errorResultWithStreaming
IsCompletion(o) ==
    \/ o.Line \in {StepLine("sso", ""), StepLine("failed", ""), StepLine("completed", "")}
    \/ HasPrefix(o.Line, StepLine("error", ""))

\* both scanners of the process of task i have returned every line
AllRead(i) ==
    /\ pipes[i].readOut = Len(pipes[i].out)
    /\ pipes[i].readErr = Len(pipes[i].err)

\* the command process task i has started, if any
CmdProcesses(i) == {e \in spawned : e.task = i /\ e.kind = "cmd"}

\* the position of the message that ends init with success
InitDoneAt(es) ==
    IF \E k \in 1..Len(es) : es[k].Line = StepLine("initDone", "")
    THEN CHOOSE k \in 1..Len(es) : es[k].Line = StepLine("initDone", "")
    ELSE Len(es)

DryPass == passPc # "idle" /\ execOpts.DryRun

\* the commands (terraform init left aside) the tasks of the pass have started
SpawnedCommands == {e \in spawned : e.kind = "cmd"}

\* C19: whatever command the user asked for (plan, apply or destroy),
\* every command a task of the dry-run pass starts is terraform plan with
\* --detailed-exitcode, holds --destroy exactly when the user asked for
\* destroy, and never holds --auto-approve.
C19_DryRunIsPlan ==
    DryPass =>
        \A e \in SpawnedCommands :
            /\ e.prog = "terraform"
            /\ e.args[1] = "plan"
            /\ "--detailed-exitcode" \in Range(e.args)
            /\ "--destroy" \in Range(e.args) <=> command = "destroy"
            /\ "--auto-approve" \notin Range(e.args)

\* a task of the dry-run pass of a destroy has started its command
C19_Witness ==
    /\ DryPass
    /\ command = "destroy"
    /\ \E e \in SpawnedCommands : "--destroy" \in Range(e.args)

\* buildTerraformCommand has returned
Built == built # NoCmd

\* the part of the built arguments in front of the passthrough arguments
AddedArgs ==
    SubSeq(built.Args, 1, Len(built.Args) - Len(execOpts.Args))

\* the command approves itself: apply or destroy outside a dry run
SelfApproving == execOpts.Command \in {"apply", "destroy"} /\ ~execOpts.DryRun

Occurrences(args, arg) == Cardinality({k \in DOMAIN args : args[k] = arg})

\* the flags of the documented shape behind the targets, in their order
ShapeFlags == << "--detailed-exitcode", "--destroy", "--auto-approve" >>

\* the positions of an argument vector that hold a flag of the shape
FlagPositions(args, f) == {k \in DOMAIN args : args[k] = ShapeFlags[f]}

\* C21 as stated: every command a task of either pass starts has the
\* operation first, at most one --var-file behind it, and holds each of
\* --detailed-exitcode, --destroy and --auto-approve at most once, in that
\* order, in front of the passthrough arguments.
C21_Original ==
    \A e \in SpawnedCommands :
        /\ e.args[1] \in Commands
        /\ Cardinality({k \in DOMAIN e.args : HasPrefix(e.args[k], "--var-file=")}) <= 1
        /\ \A k \in DOMAIN e.args : HasPrefix(e.args[k], "--var-file=") => k = 2
        /\ \A f \in DOMAIN ShapeFlags : Occurrences(e.args, ShapeFlags[f]) <= 1
        /\ \A f \in DOMAIN ShapeFlags, g \in DOMAIN ShapeFlags :
               f < g => \A k \in FlagPositions(e.args, f), l \in FlagPositions(e.args, g) :
                            k < l

\* the pass runs a command BuildCommandFromProfile does not support
UnsupportedPass == passPc # "idle" /\ execOpts.Command \notin Commands

\* terraform init of task i in its workspace has succeeded
InitSucceeded(i) == \E e \in SpawnedBy(i) : e.kind = "init" /\ e.outcome.code = 0

\* C22: in a pass whose command is none of plan, apply and destroy no task
\* starts the command: a task that comes to build it ends with a failed
\* result that carries "command build failed: unsupported command: ...",
\* and every task of the pass still ends with its own result.
C22_UnsupportedCommandFailsTaskOnly ==
    UnsupportedPass =>
        /\ SpawnedCommands = {}
        /\ \A i \in DOMAIN taskPc :
               /\ taskPc[i] \in {"queued", "acquired", "init", "done"}
               /\ taskPc[i] = "done" =>
                      /\ ~taskResult[i].Success
                      /\ taskResult[i].Output = ""
                      /\ taskResult[i].ProfileName = passProfiles[i].Name
                      /\ InitSucceeded(i) <=>
                             taskResult[i].Error =
                                 "command build failed: unsupported command: "
                                     \o execOpts.Command
        /\ passPc \in {"closed", "displayed"} =>
               /\ Len(resultsChan) = Len(passProfiles)
               /\ \A i \in DOMAIN taskPc : taskResult[i] \in Range(resultsChan)

\* the pass of an unsupported command has ended: one task failed on the
\* build of the command after another had failed on its init
C22_Witness ==
    /\ UnsupportedPass
    /\ passPc = "displayed"
    /\ \E i, j \in DOMAIN taskPc :
           /\ HasPrefix(taskResult[i].Error, "terraform init failed")
           /\ HasPrefix(taskResult[j].Error, "command build failed: unsupported command")

\* the command of task i has exited with an error
FailedCommands(i) == {e \in SpawnedBy(i) : e.kind = "cmd" /\ e.outcome.code > 0}

\* C23 as stated: the result of a task whose command has exited carries the
\* credential error exactly when the command failed and the text it wrote
\* to stderr holds the session-expiry signature; after any other failure of
\* the command the result carries the plain error of the process.
C23_Original ==
    \A i \in DOMAIN taskPc :
        (taskPc[i] = "done" /\ \E e \in SpawnedBy(i) : e.kind = "cmd") =>
            /\ IsCredentialError(taskResult[i].Error) <=>
                   \E e \in FailedCommands(i) : IsAWSSSOTokenExpired(e.outcome.stderr)
            /\ \A e \in FailedCommands(i) :
                   ~IsAWSSSOTokenExpired(e.outcome.stderr) =>
                       taskResult[i].Error = ExitError(e.outcome)

\* the commands task i has started
CommandsOf(i) == {e \in SpawnedBy(i) : e.kind = "cmd"}

\* C24: a task starts its command at most once in a pass. When the command
\* fails with the session-expiry signature on stderr, the task has ended
\* with the result that carries "SSO token error: <exit error>", and
\* neither a credential refresh (aws) nor a second command was started.
C24_CommandRunsOnceNoRefresh ==
    \A i \in DOMAIN taskPc :
        /\ Cardinality(CommandsOf(i)) <= 1
        /\ \A e \in SpawnedBy(i) : e.prog = "terraform"
        /\ \A e \in CommandsOf(i) :
               (e.outcome.code > 0 /\ IsAWSSSOTokenExpired(e.outcome.stderr)) =>
                   /\ taskPc[i] = "done"
                   /\ ~taskResult[i].Success
                   /\ taskResult[i].Error = Wrap("SSO token error", ExitError(e.outcome))
                   /\ taskResult[i] \in Range(resultsChan)

\* the command of a task has failed with the expiry signature while the
\* command of another task is still running
C24_Witness ==
    \E i, j \in DOMAIN taskPc :
        /\ \E e \in CommandsOf(i) : IsAWSSSOTokenExpired(e.outcome.stderr)
        /\ taskPc[i] = "done"
        /\ taskPc[j] = "cmd"

\* no line of the backend configuration, trimmed, begins with profile and
\* holds an "="
NoProfileLine(content) ==
    \A k \in DOMAIN SplitLines(content) :
        LET line == TrimSpace(SplitLines(content)[k])
        IN  ~(HasPrefix(line, "profile") /\ Contains(line, "="))

\* C25: when the first init of Executor.Init has failed with the expiry
\* signature and the backend configuration of the profile has no line that
\* assigns profile, Init returns the error of the refresh ("... profile
\* parameter not found in backend config"), aws sso login was never started
\* and terraform init was not run a second time.
C25_NoProfileKeyNoLoginNoRetry ==
    (InitReturned /\ FirstInitExpired
        /\ NoProfileLine(BackendConfigContent(profiles[1].Name))) =>
        /\ initErr =
               "error refreshing AWS SSO token: "
                   \o "error extracting profile from backend config: "
                   \o "profile parameter not found in backend config"
        /\ InitRuns("aws") = {}
        /\ Len(initLog) = 1
        /\ mainPc = "exit1"
        /\ passPc = "idle"

\* the first init for a profile whose backend configuration names no
\* profile has failed with the expiry signature
C25_Witness ==
    /\ InitReturned
    /\ FirstInitExpired
    /\ NoProfileLine(BackendConfigContent(profiles[1].Name))
    /\ RefreshFailed

\* the stems of the files (links to files too) that carry the extension in
\* their own name anywhere under a directory
RECURSIVE NamedStems(_, _)
NamedStems(entries, extension) ==
    UNION { IF e.kind = "dir" THEN NamedStems(e.sub, extension)
            ELSE IF HasSuffix(e.name, extension)
                 THEN {SubSeq(e.name, 1, Len(e.name) - Len(extension))}
                 ELSE {}
            : e \in entries }

\* the directory called name is there
HasDir(name) == \E e \in workDir : e.name = name /\ e.kind = "dir"

\* the stems present with both extensions
PairedStems ==
    NamedStems(EntriesOf(workDir, "backend"), ".tfbackend")
        \cap NamedStems(EntriesOf(workDir, "vars"), ".tfvars")

\* C26 (as stated): DetectProfiles returns exactly one profile for each stem
\* that occurs with the backend extension in the backend directory and with
\* the variables extension in the vars directory, none for a stem present
\* with only one of them, and zero profiles when either directory is missing
C26_Original ==
    cfgPc = "detected" =>
        IF HasDir("backend") /\ HasDir("vars")
        THEN /\ {cfg.Profiles[i].Name : i \in DOMAIN cfg.Profiles} = PairedStems
             /\ Len(cfg.Profiles) = Cardinality(PairedStems)
        ELSE cfg.Profiles = << >>

\* C27: ListProfiles returns one name per profile in the config's order;
\* GetProfile reports found exactly when the name is among those names, and
\* the profile it returns when found carries the requested name
C27_ListAndGetProfileAgree ==
    lookup.asked =>
        /\ Len(lookup.names) = Len(cfg.Profiles)
        /\ \A i \in 1..Len(cfg.Profiles) : lookup.names[i] = cfg.Profiles[i].Name
        /\ lookup.found <=> (\E i \in 1..Len(lookup.names) : lookup.names[i] = lookup.name)
        /\ lookup.found => lookup.profile.Name = lookup.name

\* a hand-written Config of two different names was asked for its second
C27_Witness ==
    /\ lookup.asked
    /\ cfgPc = "given"
    /\ Len(cfg.Profiles) = 2
    /\ cfg.Profiles[1].Name # cfg.Profiles[2].Name
    /\ lookup.name = cfg.Profiles[2].Name
    /\ lookup.found

\* the read of the latest prompt of the review failed (an error, or the
\* input ended)
ReadFailed == lastRead.err

\* C28 (as stated): an I/O failure while collecting an approval answer
\* aborts the entire invocation with an error; it is not turned into a
\* decision
C28_Original ==
    ReadFailed => mainPc = "exit1"

\* C28 amended: an I/O failure while collecting an approval answer is taken
\* for the answer no and the invocation goes on without an error: the
\* prompt is logged as a rejection, a profile rejected so is not added to the
\* approved names, and a batch confirmation rejected so leaves the plan with
\* no approved profile.
C28_ReadFailureIsRejection ==
    ReadFailed =>
        /\ mainPc \in {"review", "planned"}
        /\ promptLog # << >>
        /\ ~promptLog[Len(promptLog)].answer
        /\ mainPc = "review" =>
               /\ promptLog[Len(promptLog)].kind = "profile"
               /\ approvedProfiles = ApprovedUpTo(Len(promptLog) - 1)
        /\ (mainPc = "planned" /\ promptLog[Len(promptLog)].kind = "batch") =>
               plan.ApprovedProfiles = << >>
        /\ (mainPc = "planned" /\ promptLog[Len(promptLog)].kind = "profile") =>
               plan.ApprovedProfiles = ApprovedUpTo(Len(promptLog) - 1)

\* the input ended at the batch confirmation, after two profiles had been
\* approved
C28_Witness ==
    /\ ReadFailed
    /\ mainPc = "planned"
    /\ promptLog[Len(promptLog)].kind = "batch"
    /\ Len(ApprovedUpTo(Len(promptLog))) = 2

\* the operator answered the latest prompt of the review with a line
Answered == lastRead # NoRead /\ ~lastRead.err

\* the lines that are "y" or "yes" once trimmed and lower-cased
IsYes(line) == line \in {"y\n", "yes\n", "YES\n", " Y \n"}

\* C29: a per-profile or batch prompt counts as approval only when the
\* answer, trimmed and lower-cased, is "y" or "yes"; every other answer, an
\* empty line included, is a rejection: the profile is not added to the
\* approved names, the batch is not executed
C29_OnlyYesApproves ==
    Answered =>
        LET k == Len(promptLog)
        IN  /\ k >= 1
            /\ promptLog[k].answer <=> IsYes(lastRead.line)
            /\ (mainPc = "review" \/ promptLog[k].kind = "profile") =>
                   (IF mainPc = "review" THEN approvedProfiles
                                         ELSE plan.ApprovedProfiles)
                       = IF IsYes(lastRead.line)
                         THEN Append(ApprovedUpTo(k - 1), promptLog[k].name)
                         ELSE ApprovedUpTo(k - 1)
            /\ promptLog[k].kind = "batch" =>
                   plan.ApprovedProfiles
                       = IF IsYes(lastRead.line) THEN ApprovedUpTo(k) ELSE << >>

\* the operator answered a profile prompt with an empty line after having
\* approved another profile
C29_Witness ==
    /\ Answered
    /\ lastRead.line = "\n"
    /\ promptLog[Len(promptLog)].kind = "profile"
    /\ ~promptLog[Len(promptLog)].answer
    /\ Len(approvedProfiles) = 1

\* the names of the workspaces the manager has allocated
OwnNames == {FilepathBase(ProfileSpaces[p]) : p \in DOMAIN ProfileSpaces}

\* C30 (as stated): the workspace directory names two concurrent invocations
\* in one source tree allocate are disjoint: no allocation reuses a
\* workspace of the other invocation, and the teardown of the one removes no
\* workspace of the other
C30_Original ==
    /\ OwnNames \cap ForeignWorkspaces = {}
    /\ \A n \in ForeignWorkspaces : n \in DOMAIN siblings

\* the entries of the source tree of the manager and of the workspace of
\* profile p
SourceEntries == siblings[FilepathBase(wmBaseDirPath)].entries
WorkspaceEntries(p) == siblings[FilepathBase(ProfileSpaces[p])].entries

\* the name is that of a state file
IsStateFile(name) == Contains(name, "terraform.tfstate")

\* the links below the entries of a workspace, those of its .terraform
\* directory included
LinksOf(entries) ==
    {e \in entries : e.kind = "link"}
        \cup UNION {{c \in e.sub : c.kind = "link"} : e \in {d \in entries : d.kind = "dir"}}

\* C31: after the allocation every top-level entry of the source tree but
\* .terraform is linked into each workspace, every entry of .terraform but
\* the state file is linked into the .terraform directory of the workspace,
\* and no workspace holds a link to a state file
C31_LinkedExceptStateFile ==
    (wsPc = "created" /\ wsErr = "none") =>
        \A p \in DOMAIN ProfileSpaces :
            LET base == FilepathBase(wmBaseDirPath)
                w == WorkspaceEntries(p)
            IN  /\ \A e \in SourceEntries :
                       IF e.name # ".terraform"
                       THEN Link(e.name, "../" \o base \o "/" \o e.name) \in w
                       ELSE \E d \in w :
                              /\ d.name = ".terraform" /\ d.kind = "dir"
                              /\ \A c \in e.sub :
                                     IF IsStateFile(c.name)
                                     THEN ~HasEntry(d.sub, c.name)
                                     ELSE Link(c.name,
                                               "../../" \o base \o "/.terraform/"
                                                   \o c.name) \in d.sub
                /\ \A l \in LinksOf(w) : ~IsStateFile(l.target)

\* two workspaces were allocated from a source tree whose .terraform holds a
\* state file
C31_Witness ==
    /\ wsPc = "created" /\ wsErr = "none"
    /\ Cardinality(DOMAIN ProfileSpaces) = 2
    /\ \E e \in SourceEntries :
           e.name = ".terraform" /\ HasEntry(e.sub, "terraform.tfstate")

\* the path of the workspace of this invocation for a profile name
OwnWorkspace(name) ==
    FilepathJoin(ParentDir,
                 WorkspaceName(FilepathBase(wmBaseDirPath), name, wmOperationID))

\* C32 (as stated): every external process of the invocation, those of the
\* initialization included, runs in a workspace of a profile of the
\* invocation; none runs in the source tree
C32_Original ==
    /\ \A e \in spawned : e.dir = OwnWorkspace(e.profile)
    /\ \A k \in DOMAIN initLog :
           \E n \in ProfileNames : initLog[k].dir = OwnWorkspace(n)

\* C32 amended: every terraform process a task of a pass starts (init in
\* the workspace and the command) runs in the workspace of the profile of
\* the task; the processes of Executor.Init (terraform init for the first
\* profile and, after an expiry signature, aws sso login and a second init)
\* run in the source tree, the working directory of tapper.
C32_TasksRunInWorkspaceInitInSourceTree ==
    /\ \A e \in spawned :
           /\ e.prog = "terraform"
           /\ e.dir = OwnWorkspace(e.profile)
           /\ e.dir # ""
    /\ \A k \in DOMAIN initLog : initLog[k].dir = ""

\* Executor.Init has run init, the login and init again, and the tasks of
\* two profiles have started an init and a command
C32_Witness ==
    /\ Len(initLog) = 3
    /\ \E e, f \in spawned :
           e.kind = "init" /\ f.kind = "cmd" /\ e.profile # f.profile

\* the directories task i of the pass uses: the working directory of its
\* result and of its processes
TaskDirs(i) ==
    ({taskResult[i].WorkingDir} \ {""}) \cup {e.dir : e \in SpawnedBy(i)}

\* the list of requested names repeats a name
RepeatsName ==
    \E i, j \in DOMAIN profileArgs : i # j /\ profileArgs[i] = profileArgs[j]

\* C33: for any list of requested names, one that repeats a name included,
\* no two tasks of a pass use the same workspace directory (a list that
\* repeats a name fails at the allocation and starts no pass)
C33_NoTwoTasksShareWorkspace ==
    /\ \A i, j \in DOMAIN taskPc :
           i # j => TaskDirs(i) \cap TaskDirs(j) = {}
    /\ RepeatsName => passPc = "idle" /\ spawned = {}

\* two tasks of a pass have a process running, each in its workspace
C33_Witness ==
    \E e, f \in RunningProcesses :
        e.task # f.task /\ e.dir # "" /\ f.dir # "" /\ e.dir # f.dir

\* a goroutine of a task of the pass is alive
TaskAlive == \E i \in DOMAIN taskPc : taskPc[i] # "done"

\* C34: no write to the registry map ProfileSpaces, by CreateWorkspaces or
\* by Cleanup, happens while a task of a pass is alive: the tasks read the
\* map through GetWorkspacePath and nothing mutates it meanwhile
C34_RegistryWrittenOutsidePasses ==
    [][(ProfileSpaces' # ProfileSpaces \/ wsPc' # wsPc \/ wsErr' # wsErr)
           => ~TaskAlive]_vars

\* two tasks of the real pass are running, past their reads of the map, with
\* two workspaces registered
C34_Witness ==
    /\ RealPass
    /\ Cardinality(DOMAIN ProfileSpaces) = 2
    /\ \E i, j \in DOMAIN taskPc : taskPc[i] = "cmd" /\ taskPc[j] = "init"

\* C35: with a cap of 1 or more and any number of profiles, if every process
\* that is started exits then, under fair scheduling, every task is admitted
\* by the semaphore and the pass returns one result per task: no task waits
\* forever on the semaphore, on streamChan or on resultsChan (a task is done
\* only after it left the queue, so every task done says every task admitted)
C35_PassTerminates ==
    <>(/\ mainPc = "done"
       /\ Len(realResults) = Len(passProfiles)
       /\ \A i \in DOMAIN taskPc : taskPc[i] = "done")

\* with a cap of 1 a task waits for the semaphore while the other, whose
\* command runs, finds streamChan full
C35_Witness ==
    /\ MaxConcurrency = 1
    /\ semaphore = 1
    /\ Len(streamChan) = StreamCap
    /\ \E i, j \in DOMAIN taskPc : taskPc[i] = "queued" /\ taskPc[j] = "cmdRead"

\* a process some task has started has not exited
ProcessRunning == \E e \in spawned : e.outcome = Running

\* a step that issues an approval prompt and reads its answer
PromptIssued == promptLog' # promptLog

\* a step in which a task of the real pass starts a process
RealProcessSpawned == ~execOpts'.DryRun /\ spawned' \ spawned # {}

\* a step in which executeCommand returns and its deferred WorkspaceCleanup runs
TeardownStarts == mainPc \in {"planned", "realRun"} /\ mainPc' = "done"

\* C36: the phases of an invocation are strictly ordered. A prompt is issued
\* only in the dry-run pass after all its tasks are done, none of their
\* processes runs and the display goroutine has signalled that it rendered
\* the closed stream; once the real pass has started no prompt is issued any
\* more, and a process of the real pass is started only then; the teardown
\* starts only when every task of the last pass is done and the pass has
\* returned.
C36_PhasesOrdered ==
    [][/\ PromptIssued =>
              DryPass /\ passPc = "displayed" /\ ~TaskAlive /\ ~ProcessRunning
       /\ RealPass => (RealPass' /\ ~PromptIssued)
       /\ RealProcessSpawned => (RealPass /\ mainPc = "realRun")
       /\ TeardownStarts =>
              passPc = "displayed" /\ ~TaskAlive /\ ~ProcessRunning]_vars

\* the invocation has ended after two per-profile prompts and the batch
\* prompt, a real pass whose processes all exited, and the teardown
C36_Witness ==
    /\ mainPc = "done"
    /\ wsPc = "cleaned"
    /\ Len(promptLog) >= 3
    /\ RealPass
    /\ \E e \in spawned : e.kind = "cmd"
    /\ realResults # << >>

\* the profile names of the per-profile prompts issued so far, in order
PromptedNames == [k \in 1..Cardinality(ProfilePrompts) |-> promptLog[k].name]

\* the per-profile prompts for profile name n that were answered yes
YesPromptsFor(n) ==
    {k \in ProfilePrompts : promptLog[k].name = n /\ promptLog[k].answer}

\* C37: ReviewAndApproveResults issues its per-profile prompts in the order
\* of the result list, one for each result whether it succeeded or failed:
\* during the review the prompted names are the names of the first results,
\* and when the review has ended they are the names of all the results; a
\* name is among the approved names, during the review and in the plan,
\* only if the prompt for that name was answered yes.
C37_OnePromptPerResultInOrder ==
    /\ ProfilePrompts = 1..Cardinality(ProfilePrompts)
    /\ mainPc = "review" =>
           /\ Len(PromptedNames) <= Len(results)
           /\ PromptedNames = SubSeq(ResultNames(results), 1, Len(PromptedNames))
           /\ dryResultNames = ResultNames(results)
           /\ \A k \in DOMAIN approvedProfiles :
                  YesPromptsFor(approvedProfiles[k]) # {}
    /\ PlanReturned =>
           /\ PromptedNames = dryResultNames
           /\ \A k \in DOMAIN plan.ApprovedProfiles :
                  YesPromptsFor(plan.ApprovedProfiles[k]) # {}

\* the review has prompted for two results: the first had failed and was
\* approved, the second had succeeded and was rejected
C37_Witness ==
    /\ mainPc = "review"
    /\ Len(results) = 2
    /\ Len(promptLog) = 2
    /\ results[1].Error # "" /\ ~results[1].Success
    /\ results[2].Success
    /\ promptLog[1].answer
    /\ ~promptLog[2].answer
    /\ approvedProfiles = << results[1].ProfileName >>

\* a step in which a value is sent on streamChan
SendsOnStream == emittedOf' # emittedOf

\* both readers of the latest process of task i have reached the end of
\* their stream and returned
ReadersJoined(i) ==
    /\ pipes'[i].readOut = Len(pipes'[i].out)
    /\ pipes'[i].readErr = Len(pipes'[i].err)

\* C38: no goroutine sends on streamChan once parallelExecution has closed
\* it, under every interleaving: a task whose goroutine has ended (wg.Done)
\* has no reader left that could send, neither of its init nor of its
\* command, and a reader takes a line only while its task waits for it.
C38_NoSendAfterClose ==
    [][/\ StreamClosed => ~SendsOnStream
       /\ \A i \in DOMAIN taskPc' : taskPc'[i] = "done" => ReadersJoined(i)
       /\ \A i \in DOMAIN pipes :
              pipes'[i] # pipes[i] /\ pipes'[i].out = pipes[i].out
                                   /\ pipes'[i].err = pipes[i].err
                                   /\ pipes[i] # NoPipe =>
                  taskPc[i] \in {"initRead", "cmdRead"}]_vars

\* streamChan is closed after two tasks whose processes wrote to stdout and
\* to stderr, while values they sent still wait in the channel
C38_Witness ==
    /\ StreamClosed
    /\ streamChan # << >>
    /\ \A i \in DOMAIN pipes :
           /\ pipes[i].out # << >>
           /\ pipes[i].err # << >>
           /\ AllRead(i)
    /\ Len(pipes) = 2

\* the refresh that followed the first init of Executor.Init did not log in:
\* aws sso login was not started (the profile could not be read from the
\* backend configuration) or it ended with an error
RefreshDidNotLogIn ==
    /\ FirstInitExpired
    /\ \A k \in InitRuns("aws") : initLog[k].outcome.code # 0

\* C39: when the init of Executor.Init fails with the expiry signature and
\* the refresh fails, init is not run again and the invocation ends with the
\* error of the refresh, before any workspace is made; when the init fails
\* without the signature, or succeeds, no refresh is attempted: aws is not
\* run and the error of Executor.Init is that of the init itself.
C39_FailedRefreshAborts ==
    InitReturned =>
        /\ RefreshDidNotLogIn =>
               /\ Cardinality(InitRuns("terraform")) = 1
               /\ initLog[1].prog = "terraform"
               /\ HasPrefix(initErr, "error refreshing AWS SSO token: ")
               /\ mainPc = "exit1"
               /\ wsCreated = {}
               /\ passPc = "idle"
        /\ (Len(initLog) >= 1 /\ ~FirstInitExpired) =>
               /\ Len(initLog) = 1
               /\ InitRuns("aws") = {}
               /\ initErr = ExitError(initLog[1].outcome)
               /\ ~Contains(initErr, "refreshing")

\* the invocation has ended after an init with the expiry signature and an
\* aws sso login that failed
C39_Witness ==
    /\ mainPc = "exit1"
    /\ FirstInitExpired
    /\ Len(initLog) = 2
    /\ initLog[2].prog = "aws"
    /\ initLog[2].outcome.code # 0
    /\ initErr = "error refreshing AWS SSO token: error running aws sso login: exit status 1"

\* the bytes of the lines of the input from the k-th on
TypedFrom(k) == JoinTyped(SubSeq(typed, k, Len(typed)))

\* C40 (as stated): each prompt, per-profile or batch, takes exactly one line
\* of the input, so the k-th prompt is decided by the k-th line, also when
\* the lines are on standard input before the first prompt: after k prompts
\* the lines behind the k-th still wait, and the k-th answer is yes exactly
\* when the k-th line is y or yes.
C40_Original ==
    stdinKind # "none" =>
        /\ Len(promptLog) <= Len(typed) => stdin = TypedFrom(Len(promptLog) + 1)
        /\ \A k \in DOMAIN promptLog :
               k <= Len(typed) => (promptLog[k].answer <=> IsYes(typed[k]))

====
